---- MODULE Spec2Model ----
(***************************************************************************)
(* Karl AI Ecosystem: the DevAgent runner (run_once, run_loop,             *)
(* run_specific_task over DevAgentExecutor and CoreHubClient), the         *)
(* CacheService and the AlertManager, as state machines.                   *)
(*                                                                         *)
(* SpecRunner : agents/devagent/app/main.py, app/executor.py,              *)
(*              tools/corehub_client.py, corehub/api/routes/tasks.py       *)
(* SpecCache  : corehub/services/cache.py                                  *)
(* SpecAlert  : corehub/services/alerts.py                                 *)
(***************************************************************************)
EXTENDS Integers, Sequences, FiniteSets, TLC

VARIABLES
    \* ---- runner (main.py / executor.py) ----
    entry,                 \* which entry point this process runs
    pc,                    \* position of the runner
    consecutive_failures,  \* main.py:67
    circuit_open,          \* main.py:69
    sleep_for,             \* argument of the asyncio.sleep in progress (0: none)
    cur,                   \* id of the task held by _execute_single_task (0: none)
    arg_task_id,           \* task_id argument of run_specific_task
    raised_stage,          \* pipeline stage that raised in this call ("" : none)
    trace,                 \* calls issued in the current iteration / invocation
    streak,                \* history: consecutive iterations ended by a raise
    in_flight,             \* history: tasks fetched whose status update is not issued yet
    completed,             \* history: pipeline stages completed for the fetched task
    task_result,           \* locals of _execute_single_task: quality_results, then result
    \* ---- task source (CoreHub) ----
    tasks,                 \* kanban: task id -> status
    system_paused,         \* the system_paused flag
    holders,               \* history: task id -> runners it was handed to since its last status write
    source_ret,            \* last request the task source served and its answer
    \* ---- CacheService ----
    now,                   \* clock (seconds), shared by cache and alerts
    cache,                 \* key -> entry or NoEntry
    stats,                 \* hits / misses / evictions / size
    cache_ret,             \* last operation and what it returned
    n_sets,                \* history: set calls since the last clear, counted up to SetsCap
    \* ---- AlertManager ----
    alerts,                \* alert id -> Alert or NoAlert
    alert_history,         \* sequence of recorded alert ids
    cooldowns,             \* alert type -> suppressed-until (0: not set)
    sent,                  \* channel.send calls issued so far
    alert_ret,             \* last manager operation and what it returned
    in_send,               \* caller -> the create_alert call suspended in channel.send
    \* ---- BaseAgent (agents/base_agent.py) ----
    agent,                 \* the agent object: running, status, tasks, metrics
    proc,                  \* the process_tasks call: position, pending snapshot, index
    \* ---- MetricsCollector / MonitoringService ----
    metrics_history,       \* family -> ring buffer of samples (metrics.py:79-84)
    n_collected,           \* history: samples appended so far
    metric_alerts,         \* len(MetricsCollector.alerts) (metrics.py:86, 358)
    running,               \* MonitoringService.running
    loop_pc,               \* monitoring_tasks: where each periodic loop stands
    mon_ret,               \* last collector / monitor operation and its result
    \* ---- quality checks (executor.py / code_runner.py) ----
    q_pc,                  \* position inside _run_quality_checks
    q_results,             \* check -> result dict, for the checks that have returned
    q_calls,               \* history: check -> calls made in this pipeline run
    quality                \* dict returned by _run_quality_checks (<<>>: not yet)

runnerVars == <<entry, pc, consecutive_failures, circuit_open, sleep_for, cur,
                arg_task_id, raised_stage, trace, streak, in_flight, completed, task_result,
                tasks, system_paused>>
cacheVars == <<cache, stats, cache_ret, n_sets>>
alertVars == <<alerts, alert_history, cooldowns, sent, alert_ret>>
monVars == <<metrics_history, n_collected, metric_alerts, running, loop_pc, mon_ret>>
sourceVars == <<holders, source_ret>>
qualityVars == <<q_pc, q_results, q_calls, quality>>
sendVars == <<in_send>>
agentVars == <<agent, proc>>
vars == <<runnerVars, sourceVars, now, cacheVars, alertVars, monVars, qualityVars, sendVars,
          agentVars>>

(***************************************************************************)
(* Bounds of the model                                                     *)
(***************************************************************************)
NumTasks == 5
MaxNow == 2
MaxGets == 3
MaxAlerts == 2
\* capacity of each ring buffer: deque(maxlen=1000) in metrics.py:80-83
maxlen == 2
MaxSamples == 3
MaxCandidates == 2
MaxReadings == 2

(***************************************************************************)
(* Program constants                                                       *)
(***************************************************************************)
max_failures == 5
circuit_reset_time == 300
interval == 300
pause_wait == 60
backoff_base == 60
backoff_cap == 300
backoff_max_exp == 5
default_ttl == 300
default_cooldown_minutes == 5
check_interval == 60

TaskIds == 1..NumTasks
NoTask == 0
Statuses == {"todo", "in_progress", "done", "blocked"}
Entries == {"run_loop", "run_once", "run_specific_task", "execute_task"}
Stages == <<"plan", "execute_plan", "quality_checks", "result", "create_pr">>

Min(a, b) == IF a < b THEN a ELSE b

RECURSIVE Pow2(_)
Pow2(n) == IF n <= 0 THEN 1 ELSE 2 * Pow2(n - 1)

\* One record per call the runner issues: op is the call, id a task id or a
\* duration, st the status written / the answer / the sleep site.
Call(op, id, st) == [op |-> op, id |-> id, st |-> st]

(***************************************************************************)
(* Task source: corehub/api/routes/tasks.py and routes/admin.py            *)
(***************************************************************************)
\* "prio" field of the kanban entries (lower number = higher priority).
Prio(i) == ((i + 1) % 3) + 1

TodoTasks(ts) == {i \in TaskIds : ts[i] = "todo"}

\* get_next_task: the todo task with the smallest prio; the sort is stable,
\* so among equal prio the first in kanban order. NoTask when none is todo.
ServerNextTask(ts) ==
    IF TodoTasks(ts) = {} THEN NoTask
    ELSE CHOOSE i \in TodoTasks(ts) :
            \A j \in TodoTasks(ts) :
                Prio(i) < Prio(j) \/ (Prio(i) = Prio(j) /\ i <= j)

\* get_next_task marks the task it hands out in_progress and saves the kanban.
ServerTakeTaskUnmarked(ts, i) == ts
ServerTakeTask(ts, i) == IF i = NoTask THEN ts ELSE [ts EXCEPT ![i] = "in_progress"]

\* PUT /tasks/{id}/status: any valid status is written to an existing task.
ServerUpdateStatus(ts, i, st) ==
    IF i \in TaskIds /\ st \in Statuses THEN [ts EXCEPT ![i] = st] ELSE ts

\* POST /admin/pause
AdminSetPause ==
    /\ \E p \in BOOLEAN : p # system_paused /\ system_paused' = p
    /\ UNCHANGED <<entry, in_flight, completed, task_result, pc, consecutive_failures, circuit_open, sleep_for, cur,
                   arg_task_id, raised_stage, trace, streak, tasks>>

(***************************************************************************)
(* CoreHubClient: every call swallows network errors                       *)
(***************************************************************************)
\* is_system_paused: the flag, or False on any error.
IsSystemPaused(net_ok) == IF net_ok THEN system_paused ELSE FALSE

\* get_next_task: the task handed out, or None on any error.
ClientNextTask(net_ok) == IF net_ok THEN ServerNextTask(tasks) ELSE NoTask

\* get_task: "ok" answers with the task or a 404 (None), "neterr" is
\* swallowed (None), any other HTTP status error is re-raised.
ClientGetTask(res, id) == IF res = "ok" /\ id \in TaskIds THEN id ELSE NoTask

\* update_task_status: the write reaches the source only when the call succeeds.
ClientUpdateStatus(net_ok, i, st) ==
    IF net_ok THEN ServerUpdateStatus(tasks, i, st) ELSE tasks

(***************************************************************************)
(* run_loop: circuit breaker and backoff (main.py:57-142)                  *)
(***************************************************************************)
\* consecutive_failures >= max_failures
ShouldOpenLate(cf) == cf > max_failures
ShouldOpen(cf) == cf >= max_failures

\* min(60 * (2 ** min(consecutive_failures - 1, 5)), 300)
BackoffUncapped(cf) == backoff_base * Pow2(Min(cf - 1, backoff_max_exp))
Backoff(cf) == Min(backoff_base * Pow2(Min(cf - 1, backoff_max_exp)), backoff_cap)

\* consecutive_failures after execute_task returned `result` (main.py:104-109):
\* reset only when a task result came back.
AfterReturn(cf, result) == IF result # NoTask THEN 0 ELSE cf

\* pc after the pause check of run_once / run_specific_task answered paused.
PausedExitIgnored == "fetch"
PausedExit == "done"

\* pc after a pipeline stage raised: the except block of _execute_single_task.
StageFailureSkipUpdate == "log_failed"
StageFailure == "mark_blocked"

InSleep == pc \in {"sleep_reset", "sleep_pause", "sleep_interval", "sleep_backoff"}

\* execute_task / execute_specific_task returned `result` to its caller
\* (main.py:104-119, 47-50, 169-172). `log` is the trace up to the return.
Returned(result, log) ==
    IF entry = "run_loop"
    THEN /\ consecutive_failures' = AfterReturn(consecutive_failures, result)
         /\ pc' = "sleep_interval"
         /\ sleep_for' = interval
         /\ streak' = 0
         /\ trace' = Append(log, Call("sleep", interval, "interval"))
         /\ UNCHANGED circuit_open
    ELSE /\ pc' = "done"
         /\ trace' = log
         /\ UNCHANGED <<consecutive_failures, circuit_open, sleep_for, streak>>

\* execute_task / execute_specific_task raised to its caller: run_loop's
\* `except Exception` (main.py:124-138); the other entry points re-raise.
\* `log` is the trace up to the raise.
Raised(log) ==
    IF entry = "run_loop"
    THEN /\ consecutive_failures' = consecutive_failures + 1
         /\ streak' = Min(streak + 1, max_failures)
         /\ IF ShouldOpen(consecutive_failures + 1)
            THEN /\ circuit_open' = TRUE
                 /\ pc' = "loop_top"
                 /\ trace' = log
                 /\ UNCHANGED sleep_for
            ELSE /\ sleep_for' = Backoff(consecutive_failures + 1)
                 /\ pc' = "sleep_backoff"
                 /\ trace' = Append(log, Call("sleep", Backoff(consecutive_failures + 1), "backoff"))
                 /\ UNCHANGED circuit_open
    ELSE /\ pc' = "raised"
         /\ trace' = log
         /\ UNCHANGED <<consecutive_failures, circuit_open, sleep_for, streak>>

\* main.py:87-89: the circuit is open, sleep circuit_reset_time.
CircuitWait ==
    /\ pc = "loop_top" /\ circuit_open
    /\ pc' = "sleep_reset"
    /\ sleep_for' = circuit_reset_time
    /\ trace' = <<Call("sleep", circuit_reset_time, "circuit_reset")>>
    /\ cur' = NoTask
    /\ raised_stage' = ""
    /\ UNCHANGED <<entry, in_flight, completed, task_result, consecutive_failures, circuit_open, arg_task_id,
                   streak, tasks, system_paused>>

\* consecutive_failures = 0 (main.py:91)
FailuresAfterResetKept == max_failures
FailuresAfterReset == 0

\* circuit_open = False (main.py:90)
CircuitAfterResetOpen == TRUE
CircuitAfterReset == FALSE

\* main.py:90-93: the sleep is over, close the circuit and continue.
CircuitReset ==
    /\ pc = "sleep_reset"
    /\ circuit_open' = CircuitAfterReset
    /\ consecutive_failures' = FailuresAfterReset
    /\ streak' = 0
    /\ pc' = "loop_top"
    /\ sleep_for' = 0
    /\ UNCHANGED <<entry, in_flight, completed, task_result, cur, arg_task_id, raised_stage, trace, tasks, system_paused>>

\* what a paused iteration leaves in consecutive_failures (main.py:96-99)
FailuresAfterPauseReset(cf) == 0
FailuresAfterPause(cf) == cf

\* main.py:96-99: pause check of the loop.
LoopPauseCheck ==
    /\ pc = "loop_top" /\ ~circuit_open
    /\ \E net_ok \in BOOLEAN :
        IF IsSystemPaused(net_ok)
        THEN /\ pc' = "sleep_pause"
             /\ sleep_for' = pause_wait
             /\ streak' = 0
             /\ consecutive_failures' = FailuresAfterPause(consecutive_failures)
             /\ trace' = <<Call("is_system_paused", 0, "true"),
                           Call("sleep", pause_wait, "paused")>>
        ELSE /\ pc' = "fetch"
             /\ trace' = <<Call("is_system_paused", 0, "false")>>
             /\ UNCHANGED <<sleep_for, streak, consecutive_failures>>
    /\ cur' = NoTask
    /\ raised_stage' = ""
    /\ UNCHANGED <<entry, in_flight, completed, task_result, circuit_open, arg_task_id,
                   tasks, system_paused>>

\* the sleeps at main.py:98, 119 and 138 are over: next iteration.
Wake ==
    /\ pc \in {"sleep_pause", "sleep_interval", "sleep_backoff"}
    /\ pc' = "loop_top"
    /\ sleep_for' = 0
    /\ UNCHANGED <<entry, in_flight, completed, task_result, consecutive_failures, circuit_open, cur, arg_task_id,
                   raised_stage, trace, streak, tasks, system_paused>>

(***************************************************************************)
(* run_once / run_specific_task (main.py:28-54, 145-176)                   *)
(***************************************************************************)
\* main.py:37-39 and 159-161: paused means return without an executor.
OncePauseCheck ==
    /\ pc = "once_start"
    /\ \E net_ok \in BOOLEAN :
        IF IsSystemPaused(net_ok)
        THEN /\ pc' = PausedExit
             /\ trace' = Append(trace, Call("is_system_paused", 0, "true"))
        ELSE /\ pc' = "fetch"
             /\ trace' = Append(trace, Call("is_system_paused", 0, "false"))
    /\ UNCHANGED <<entry, in_flight, completed, task_result, consecutive_failures, circuit_open, sleep_for, cur,
                   arg_task_id, raised_stage, streak, tasks, system_paused>>

(***************************************************************************)
(* DevAgentExecutor (executor.py)                                          *)
(***************************************************************************)
\* execute_task, executor.py:41-46: fetch the next task; None ends the call.
FetchNext ==
    /\ pc = "fetch" /\ entry # "run_specific_task"
    /\ \E net_ok \in BOOLEAN :
        LET t == ClientNextTask(net_ok)
            log == Append(trace, Call("get_next_task", t,
                                      IF net_ok THEN "ok" ELSE "neterr"))
        IN  /\ tasks' = IF net_ok THEN ServerTakeTask(tasks, t) ELSE tasks
            /\ cur' = t
            /\ in_flight' = IF t = NoTask THEN in_flight ELSE in_flight \cup {t}
            /\ completed' = <<>>
            /\ task_result' = <<>>
            /\ IF t = NoTask
               THEN Returned(NoTask, log)
               ELSE /\ pc' = "plan"
                    /\ trace' = log
                    /\ UNCHANGED <<consecutive_failures, circuit_open, sleep_for, streak>>
    /\ UNCHANGED <<entry, arg_task_id, raised_stage, system_paused>>

\* execute_specific_task, executor.py:82-87: fetch by id; a task is run
\* whatever its status, None ends the call, an HTTP error other than 404
\* is raised by get_task and lands in the except block (executor.py:102).
FetchSpecific ==
    /\ pc = "fetch" /\ entry = "run_specific_task"
    /\ \E res \in {"ok", "neterr", "http_error"} :
        LET t == ClientGetTask(res, arg_task_id)
            log == Append(trace, Call("get_task", t, res))
        IN  /\ cur' = t
            /\ in_flight' = IF t = NoTask THEN in_flight ELSE in_flight \cup {t}
            /\ completed' = <<>>
            /\ task_result' = <<>>
            /\ IF res = "http_error"
               THEN /\ pc' = "log_failed"
                    /\ trace' = log
                    /\ UNCHANGED <<consecutive_failures, circuit_open, sleep_for, streak>>
               ELSE IF t = NoTask
               THEN Returned(NoTask, log)
               ELSE /\ pc' = "plan"
                    /\ trace' = log
                    /\ UNCHANGED <<consecutive_failures, circuit_open, sleep_for, streak>>
    /\ UNCHANGED <<entry, arg_task_id, raised_stage, tasks, system_paused>>

\* pc after the last stage completed: the status update at executor.py:160
AfterPipelineSkipUpdate == "log_completed"
AfterPipeline == "mark_done"

\* the overall field of the quality results (executor.py:328-332)
QualityOveralls == {"pass", "fail"}

\* _generate_result (executor.py:335-356)
GenerateResultByQuality(task, overall) ==
    [task_id |-> task, quality_checks |-> overall,
     status |-> IF overall = "pass" THEN "completed" ELSE "failed"]
GenerateResult(task, overall) ==
    [task_id |-> task, status |-> "completed", quality_checks |-> overall]

\* what a completed stage leaves in the locals (executor.py:144-151)
StageResult(stage, task, res, overall) ==
    CASE stage = "quality_checks" -> [quality_checks |-> overall]
      [] stage = "result"         -> GenerateResult(task, res.quality_checks)
      [] stage = "create_pr"      -> ("pr" :> task) @@ res
      [] OTHER                    -> res

StagePc == <<"plan", "execute_plan", "quality_checks", "result", "create_pr">>
StageIndex(p) == CHOOSE k \in 1..Len(StagePc) : StagePc[k] = p

\* _execute_single_task, executor.py:134-157: one pipeline stage; it
\* completes or raises into the except block at executor.py:165.
PipelineStage ==
    /\ pc \in {StagePc[k] : k \in 1..Len(StagePc)}
    /\ \E raises \in BOOLEAN :
        IF raises
        THEN /\ pc' = StageFailure
             /\ raised_stage' = pc
             /\ UNCHANGED <<completed, task_result>>
        ELSE /\ pc' = IF StageIndex(pc) = Len(StagePc) THEN AfterPipeline
                      ELSE StagePc[StageIndex(pc) + 1]
             /\ completed' = Append(completed, pc)
             /\ \E overall \in QualityOveralls :
                    task_result' = StageResult(pc, cur, task_result, overall)
             /\ UNCHANGED raised_stage
    /\ UNCHANGED <<entry, in_flight, consecutive_failures, circuit_open, sleep_for, cur,
                   arg_task_id, trace, streak, tasks, system_paused>>

\* the status written after the last stage (executor.py:160)
SuccessStatusBlocked == "blocked"
SuccessStatus == "done"

\* executor.py:160: update_task_status(task_id, "done"); it never raises.
MarkDone ==
    /\ pc = "mark_done"
    /\ in_flight' = in_flight \ {cur}
    /\ UNCHANGED <<completed, task_result>>
    /\ \E net_ok \in BOOLEAN :
        /\ tasks' = ClientUpdateStatus(net_ok, cur, SuccessStatus)
        /\ trace' = Append(trace, Call("update_task_status", cur, SuccessStatus))
    /\ pc' = "log_completed"
    /\ UNCHANGED <<entry, consecutive_failures, circuit_open, sleep_for, cur,
                   arg_task_id, raised_stage, streak, system_paused>>

\* executor.py:165-171: update_task_status(task_id, "blocked"), then re-raise.
MarkBlocked ==
    /\ pc = "mark_blocked"
    /\ in_flight' = in_flight \ {cur}
    /\ UNCHANGED <<completed, task_result>>
    /\ \E net_ok \in BOOLEAN :
        /\ tasks' = ClientUpdateStatus(net_ok, cur, "blocked")
        /\ trace' = Append(trace, Call("update_task_status", cur, "blocked"))
    /\ pc' = "log_failed"
    /\ UNCHANGED <<entry, consecutive_failures, circuit_open, sleep_for, cur,
                   arg_task_id, raised_stage, streak, system_paused>>

CompletedEvent == IF entry = "run_specific_task" THEN "specific_task_completed"
                  ELSE "task_completed"
FailedEventMislabelled == CompletedEvent
FailedEvent == IF entry = "run_specific_task" THEN "specific_task_failed"
               ELSE "task_failed"

\* executor.py:54-59 / 95-100: log the completion event and return the result.
LogCompleted ==
    /\ pc = "log_completed"
    /\ Returned(cur, Append(trace, Call("log_event", cur, CompletedEvent)))
    /\ UNCHANGED <<entry, in_flight, completed, cur, arg_task_id, raised_stage, tasks, system_paused>>
    /\ task_result' = <<>>

\* executor.py:61-70 / 102-112: log the failure event and re-raise.
LogFailed ==
    /\ pc = "log_failed"
    /\ Raised(Append(trace, Call("log_event", cur, FailedEvent)))
    /\ UNCHANGED <<entry, in_flight, completed, cur, arg_task_id, raised_stage, tasks, system_paused>>
    /\ task_result' = <<>>

(***************************************************************************)
(* The runner as a whole                                                   *)
(***************************************************************************)
StartPc(e) == CASE e = "run_loop" -> "loop_top"
                [] e = "execute_task" -> "fetch"
                [] OTHER -> "once_start"

\* external cancellation (SIGINT under asyncio.run, main.py:237-252): the
\* coroutine is cancelled at the await it is suspended in; CancelledError is
\* no Exception, so no except block of the runner or the executor handles it.
Interrupt ==
    /\ pc \notin {"done", "raised", "cancelled", "idle"}
    /\ pc' = "cancelled"
    /\ UNCHANGED <<entry, in_flight, completed, task_result, consecutive_failures, circuit_open, sleep_for, cur,
                   arg_task_id, raised_stage, trace, streak, tasks, system_paused>>

IdleSend == in_send = <<>> /\ agent = <<>> /\ proc = <<>>

IdleQuality ==
    /\ q_pc = "idle"
    /\ q_results = <<>>
    /\ q_calls = <<>>
    /\ quality = <<>>

IdleCache ==
    /\ now = 0
    /\ cache = <<>>
    /\ stats = <<>>
    /\ cache_ret = <<>>
    /\ n_sets = 0

IdleAlerts ==
    /\ alerts = <<>>
    /\ alert_history = <<>>
    /\ cooldowns = <<>>
    /\ sent = <<>>
    /\ alert_ret = <<>>

IdleMonitor ==
    /\ metrics_history = <<>>
    /\ n_collected = 0
    /\ metric_alerts = 0
    /\ running = FALSE
    /\ loop_pc = <<>>
    /\ mon_ret = <<>>

InitRunner ==
    /\ entry \in Entries
    /\ pc = StartPc(entry)
    /\ consecutive_failures = 0
    /\ circuit_open = FALSE
    /\ sleep_for = 0
    /\ cur = NoTask
    /\ arg_task_id \in IF entry = "run_specific_task" THEN 1..(NumTasks + 1) ELSE {NoTask}
    /\ raised_stage = ""
    /\ trace = <<>>
    /\ streak = 0
    /\ in_flight = {}
    /\ completed = <<>>
    /\ task_result = <<>>
    /\ tasks \in [TaskIds -> {"todo", "done"}]
    /\ system_paused \in BOOLEAN
    /\ holders = <<>>
    /\ source_ret = <<>>

IdleRunner ==
    /\ entry = "none"
    /\ pc = "idle"
    /\ consecutive_failures = 0
    /\ circuit_open = FALSE
    /\ sleep_for = 0
    /\ cur = NoTask
    /\ arg_task_id = NoTask
    /\ raised_stage = ""
    /\ trace = <<>>
    /\ streak = 0
    /\ in_flight = {}
    /\ completed = <<>>
    /\ task_result = <<>>
    /\ tasks = [i \in TaskIds |-> "todo"]
    /\ system_paused = FALSE
    /\ holders = <<>>
    /\ source_ret = <<>>

RunnerOnly ==
    UNCHANGED <<sourceVars, now, cacheVars, alertVars, monVars, qualityVars, sendVars, agentVars>>

NextRunner ==
    \/ CircuitWait /\ RunnerOnly
    \/ CircuitReset /\ RunnerOnly
    \/ LoopPauseCheck /\ RunnerOnly
    \/ Wake /\ RunnerOnly
    \/ OncePauseCheck /\ RunnerOnly
    \/ FetchNext /\ RunnerOnly
    \/ FetchSpecific /\ RunnerOnly
    \/ PipelineStage /\ RunnerOnly
    \/ MarkDone /\ RunnerOnly
    \/ MarkBlocked /\ RunnerOnly
    \/ LogCompleted /\ RunnerOnly
    \/ LogFailed /\ RunnerOnly
    \/ AdminSetPause /\ RunnerOnly

RunnerStart == InitRunner /\ IdleCache /\ IdleAlerts /\ IdleMonitor /\ IdleQuality /\ IdleSend

SpecRunner == RunnerStart /\ [][NextRunner]_vars

\* a step of the runner process itself
RunnerStep ==
    \/ CircuitWait /\ RunnerOnly
    \/ CircuitReset /\ RunnerOnly
    \/ LoopPauseCheck /\ RunnerOnly
    \/ Wake /\ RunnerOnly
    \/ OncePauseCheck /\ RunnerOnly
    \/ FetchNext /\ RunnerOnly
    \/ FetchSpecific /\ RunnerOnly
    \/ PipelineStage /\ RunnerOnly
    \/ MarkDone /\ RunnerOnly
    \/ MarkBlocked /\ RunnerOnly
    \/ LogCompleted /\ RunnerOnly
    \/ LogFailed /\ RunnerOnly

\* the runner is not cancelled: the event loop resumes it when the sleep or
\* the request it awaits is over, whatever the operator does meanwhile
SpecRunnerLive == RunnerStart /\ [][NextRunner]_vars /\ WF_vars(RunnerStep)

\* the runner under an external cancellation that may arrive at any await
NextRunnerCancel ==
    \/ CircuitWait /\ RunnerOnly
    \/ CircuitReset /\ RunnerOnly
    \/ LoopPauseCheck /\ RunnerOnly
    \/ Wake /\ RunnerOnly
    \/ OncePauseCheck /\ RunnerOnly
    \/ FetchNext /\ RunnerOnly
    \/ FetchSpecific /\ RunnerOnly
    \/ PipelineStage /\ RunnerOnly
    \/ MarkDone /\ RunnerOnly
    \/ MarkBlocked /\ RunnerOnly
    \/ LogCompleted /\ RunnerOnly
    \/ LogFailed /\ RunnerOnly
    \/ AdminSetPause /\ RunnerOnly
    \/ Interrupt /\ RunnerOnly

SpecRunnerCancel == RunnerStart /\ [][NextRunnerCancel]_vars

(***************************************************************************)
(* The task source serving two runners (corehub/api/routes/tasks.py)       *)
(***************************************************************************)
\* two runner processes polling the same CoreHub; both send agent "devagent"
Runners == {1, 2}

\* POST /tasks/next (tasks.py:47-104). The handler has no await: the event
\* loop of the one server process runs it to its return before it serves the
\* next request, so requests of different runners interleave as whole calls.
NextTaskRequest(r) ==
    LET t == ServerNextTask(tasks)
    IN  /\ tasks' = ServerTakeTask(tasks, t)
        /\ holders' = IF t = NoTask THEN holders
                      ELSE [holders EXCEPT ![t] = Append(@, r)]
        /\ source_ret' = [op |-> "get_next_task", runner |-> r, task |-> t]

\* PUT /tasks/{id}/status (tasks.py:169-226): by a runner or an operator
UpdateStatusRequest(i, st) ==
    /\ tasks' = ServerUpdateStatus(tasks, i, st)
    /\ holders' = [holders EXCEPT ![i] = <<>>]
    /\ source_ret' = [op |-> "update_task_status", runner |-> 0, task |-> i]

InitSource ==
    /\ entry = "none"
    /\ pc = "idle"
    /\ consecutive_failures = 0
    /\ circuit_open = FALSE
    /\ sleep_for = 0
    /\ cur = NoTask
    /\ arg_task_id = NoTask
    /\ raised_stage = ""
    /\ trace = <<>>
    /\ streak = 0
    /\ in_flight = {}
    /\ completed = <<>>
    /\ task_result = <<>>
    /\ tasks \in [TaskIds -> {"todo", "done"}]
    /\ system_paused = FALSE
    /\ holders = [i \in TaskIds |-> <<>>]
    /\ source_ret = [op |-> "init", runner |-> 0, task |-> NoTask]

SourceOnly ==
    UNCHANGED <<entry, pc, consecutive_failures, circuit_open, sleep_for, cur,
                arg_task_id, raised_stage, trace, streak, in_flight, completed, task_result,
                system_paused, now, cacheVars, alertVars, monVars, qualityVars, sendVars,
                agentVars>>

NextSource ==
    \/ \E r \in Runners : NextTaskRequest(r) /\ SourceOnly
    \/ \E i \in TaskIds, st \in Statuses : UpdateStatusRequest(i, st) /\ SourceOnly

SourceStart == InitSource /\ IdleCache /\ IdleAlerts /\ IdleMonitor /\ IdleQuality /\ IdleSend

SpecSource == SourceStart /\ [][NextSource]_vars

(***************************************************************************)
(* Properties of the runner                                                *)
(***************************************************************************)
HasCall(log, c) == \E k \in 1..Len(log) : log[k] = c
HasOp(log, op) == \E k \in 1..Len(log) : log[k].op = op
LastCall(log) == log[Len(log)]

\* Calls of log2 with operation op that log1 does not already hold at the
\* same place: the calls a step has added.
AddsOp(log1, log2, op) ==
    \E k \in 1..Len(log2) :
        /\ log2[k].op = op
        /\ ~(k <= Len(log1) /\ log1[k] = log2[k])

\* C1: once max_failures consecutive iterations of run_loop have ended with
\* execute_task raising, the circuit is open and the iteration that opened it
\* slept nowhere; while the circuit is open the only step the loop takes is
\* the sleep of circuit_reset_time (after which it closes the circuit), and no
\* pause check and no get_next_task call is issued.
OpenCircuitStep ==
    circuit_open =>
        \/ /\ pc = "loop_top"
           /\ pc' = "sleep_reset"
           /\ sleep_for' = circuit_reset_time
           /\ trace' = <<Call("sleep", circuit_reset_time, "circuit_reset")>>
           /\ circuit_open'
        \/ /\ pc = "sleep_reset"
           /\ pc' = "loop_top"
           /\ ~circuit_open'
           /\ consecutive_failures' = 0
           /\ trace' = trace
        \/ /\ pc' = pc
           /\ trace' = trace
           /\ circuit_open'

OpenCircuitNoFetch ==
    circuit_open =>
        /\ ~AddsOp(trace, trace', "get_next_task")
        /\ ~AddsOp(trace, trace', "is_system_paused")
        /\ tasks' = tasks

C1_CircuitOpens ==
    /\ [](entry = "run_loop" /\ pc = "loop_top" /\ streak >= max_failures
            => circuit_open /\ ~HasOp(trace, "sleep") /\ sleep_for = 0)
    /\ [][OpenCircuitStep]_vars
    /\ [][OpenCircuitNoFetch]_vars

\* C1 witness: the loop sleeps the reset time after max_failures consecutive
\* raising iterations.
C1_Witness ==
    /\ entry = "run_loop"
    /\ pc = "sleep_reset"
    /\ circuit_open
    /\ streak = max_failures
    /\ sleep_for = circuit_reset_time

\* C2 (as claimed): every iteration in which execute_task returned without
\* raising, with a result or with None, leaves consecutive_failures at 0 when
\* the loop goes to sleep for the poll interval.
C2_ResetOnEveryReturn ==
    entry = "run_loop" /\ pc = "sleep_interval" => consecutive_failures = 0

\* The iteration of run_loop that is recorded in trace ended with
\* execute_task raising.
FailedIteration == entry = "run_loop" /\ HasOp(trace, "log_event")
                   /\ HasCall(trace, Call("log_event", cur, "task_failed"))

\* min(60 * 2^(failures-1), 300), the delay the claim states.
ClaimedDelay(f) == Min(60 * Pow2(f - 1), 300)

SuccessPcs == {"mark_done", "log_completed", "sleep_interval", "done"}

\* C4: once a pipeline stage has raised for a fetched task, no later stage
\* runs and the call does not return a result; update_task_status(task,
\* "blocked") is issued before the exception leaves _execute_single_task, and
\* the exception reaches the caller of execute_task / execute_specific_task
\* (run_loop's handler counts it, run_once and run_specific_task re-raise).
RaiseReachesCaller ==
    pc = "log_failed" /\ pc' # pc =>
        IF entry = "run_loop"
        THEN consecutive_failures' = consecutive_failures + 1
        ELSE pc' = "raised"

C4_BlockedBeforeRaise ==
    /\ [](raised_stage # "" =>
            /\ cur # NoTask
            /\ pc \notin SuccessPcs
            /\ pc \notin {StagePc[k] : k \in 1..Len(StagePc)}
            /\ pc # "mark_blocked" =>
                  HasCall(trace, Call("update_task_status", cur, "blocked")))
    /\ [][RaiseReachesCaller]_vars

\* C4 witness: the last stage (PR creation) raised, the task was reported
\* blocked and the exception reached the caller of run_once.
C4_Witness ==
    /\ entry = "run_once"
    /\ pc = "raised"
    /\ raised_stage = "create_pr"
    /\ HasCall(trace, Call("update_task_status", cur, "blocked"))

\* C5: when the pause check of run_once / run_specific_task answers paused,
\* the call is over with that single call issued: no get_next_task, no
\* get_task, no update_task_status, and no task status changes.
PausedAnswered ==
    /\ entry \in {"run_once", "run_specific_task"}
    /\ HasCall(trace, Call("is_system_paused", 0, "true"))

PausedKeepsTasks == PausedAnswered' => tasks' = tasks

C5_PausedNoFetch ==
    /\ [](PausedAnswered => /\ pc = "done"
                            /\ trace = <<Call("is_system_paused", 0, "true")>>
                            /\ cur = NoTask)
    /\ [][PausedKeepsTasks]_vars

\* C5 witness: run_once ended on a paused answer.
C5_Witness ==
    /\ entry = "run_once"
    /\ pc = "done"
    /\ trace = <<Call("is_system_paused", 0, "true")>>

\* C6 (as claimed): a step of execute_task taken while the source is paused
\* is a pause check that ends the call with None; it is no get_next_task.
PausedExecuteStep ==
    entry = "execute_task" /\ pc = "fetch" /\ system_paused /\ trace' # trace
        => /\ AddsOp(trace, trace', "is_system_paused")
           /\ ~AddsOp(trace, trace', "get_next_task")
           /\ pc' = "done"

C6_ExecuteTaskChecksPause == [][PausedExecuteStep]_vars

\* C7 (as claimed): a poll of run_loop whose get_next_task fails at the
\* network level counts as a consecutive failure.
FailedFetchStep ==
    /\ entry = "run_loop" /\ pc = "fetch"
    /\ HasCall(trace', Call("get_next_task", NoTask, "neterr"))

FailedFetchCounted ==
    FailedFetchStep => consecutive_failures' = consecutive_failures + 1

C7_FetchFailureCounts == [][FailedFetchCounted]_vars

\* C17: within one run_loop at most one task is between its fetch and the
\* issue of its done/blocked status update, and a get_next_task call is
\* issued only when no fetched task still waits for its status update.
OneTaskInFlight ==
    entry = "run_loop" => Cardinality(in_flight) <= 1

FetchStep ==
    /\ entry = "run_loop"
    /\ trace' # trace
    /\ AddsOp(trace, trace', "get_next_task")

FetchAfterUpdate == FetchStep => in_flight = {}

C17_OneTaskAtATime == [][FetchAfterUpdate]_vars /\ []OneTaskInFlight

\* run_loop has fetched the next task after an earlier one was marked blocked
C17_Witness ==
    /\ entry = "run_loop"
    /\ pc = "plan"
    /\ in_flight = {cur}
    /\ \E i \in TaskIds : i # cur /\ tasks[i] = "blocked"

\* C18 (as claimed): a cancellation of run_loop does not land inside a
\* pipeline stage of a task that is in flight.
CancellationStep == entry = "run_loop" /\ pc # "cancelled" /\ pc' = "cancelled"

MidPipeline == pc \in {StagePc[k] : k \in 1..Len(StagePc)} /\ in_flight # {}

CancellationSparesPipeline == CancellationStep => ~MidPipeline

C18_CancelNotMidStep == [][CancellationSparesPipeline]_vars

\* C19 (as claimed): every change of a task's status is todo -> in_progress
\* or in_progress -> done|blocked; done and blocked tasks never change.
LifecycleMove(old, new) ==
    \/ old = "todo" /\ new = "in_progress"
    \/ old = "in_progress" /\ new \in {"done", "blocked"}

StatusChangesFollowLifecycle ==
    \A i \in TaskIds : tasks'[i] # tasks[i] => LifecycleMove(tasks[i], tasks'[i])

C19_LifecycleOrder == [][StatusChangesFollowLifecycle]_vars

\* C21: for every task the pipeline is run on, update_task_status is called
\* exactly once: with "done" if and only if the five stages all completed
\* (so only after PR creation), otherwise with "blocked".
UpdateCalls(log) == {k \in 1..Len(log) : log[k].op = "update_task_status"}

AllStagesCompleted == completed = StagePc

UpdateStep == AddsOp(trace, trace', "update_task_status")

UpdateMatchesPipeline ==
    UpdateStep =>
        /\ UpdateCalls(trace) = {}
        /\ Cardinality(UpdateCalls(trace')) = 1
        /\ AllStagesCompleted <=> raised_stage = ""
        /\ LastCall(trace') = Call("update_task_status", cur,
                                   IF AllStagesCompleted THEN "done" ELSE "blocked")

PipelineOver ==
    /\ cur # NoTask
    /\ pc \in {"log_completed", "log_failed"}

PipelineOverUpdatedOnce ==
    PipelineOver =>
        /\ Cardinality(UpdateCalls(trace)) = 1
        /\ HasCall(trace, Call("update_task_status", cur, "done"))
              <=> AllStagesCompleted
        /\ HasCall(trace, Call("update_task_status", cur, "blocked"))
              <=> ~AllStagesCompleted

C21_StatusUpdatedOnce == [][UpdateMatchesPipeline]_vars /\ []PipelineOverUpdatedOnce

\* the five stages completed and the one status update is "done"
C21_Witness ==
    /\ pc = "log_completed"
    /\ completed = StagePc
    /\ UpdateCalls(trace) # {}
    /\ LastCall(trace) = Call("update_task_status", cur, "done")

\* C27: whenever the circuit of run_loop opens it eventually closes again
\* with consecutive_failures reset to 0, and the iteration after that takes
\* the normal path: the pause check and, unless paused, the fetch.
CircuitClosed ==
    /\ entry = "run_loop"
    /\ pc = "loop_top"
    /\ ~circuit_open
    /\ consecutive_failures = 0
    /\ trace = <<Call("sleep", circuit_reset_time, "circuit_reset")>>

PauseChecked ==
    \/ pc = "sleep_pause" /\ trace[1] = Call("is_system_paused", 0, "true")
    \/ /\ trace # <<>>
       /\ trace[1] = Call("is_system_paused", 0, "false")
       /\ HasOp(trace, "get_next_task")

C27_CircuitCloses ==
    /\ circuit_open ~> CircuitClosed
    /\ CircuitClosed ~> PauseChecked

\* the circuit is closed again after its reset sleep
C27_Witness == CircuitClosed /\ streak = 0 /\ cur = NoTask

\* C28: a run_loop iteration in which the source reports paused sleeps 60
\* seconds, issues no fetch and leaves consecutive_failures and the circuit
\* state as they were, up to the start of the next iteration.
PausedIterationStep ==
    /\ entry = "run_loop"
    /\ trace' # trace
    /\ trace' # <<>>
    /\ trace'[1] = Call("is_system_paused", 0, "true")

PausedIterationSleeps ==
    PausedIterationStep =>
        /\ trace' = <<Call("is_system_paused", 0, "true"), Call("sleep", 60, "paused")>>
        /\ pc' = "sleep_pause"
        /\ sleep_for' = 60
        /\ consecutive_failures' = consecutive_failures
        /\ circuit_open' = circuit_open
        /\ tasks' = tasks

PausedIterationEnds ==
    pc = "sleep_pause" /\ pc' # pc =>
        /\ pc' = "loop_top"
        /\ consecutive_failures' = consecutive_failures
        /\ circuit_open' = circuit_open
        /\ ~HasOp(trace', "get_next_task")
        /\ tasks' = tasks

C28_PausedIterationNeutral ==
    [][PausedIterationSleeps]_vars /\ [][PausedIterationEnds]_vars

\* a paused iteration after failures: the count is still there
C28_Witness ==
    /\ entry = "run_loop"
    /\ pc = "sleep_pause"
    /\ sleep_for = 60
    /\ consecutive_failures = 2
    /\ ~circuit_open

\* run_loop issues its pause check or hands over to execute_task's fetch
IssuesCheckOrFetch ==
    /\ entry = "run_loop"
    /\ \/ pc = "loop_top" /\ pc' \in {"fetch", "sleep_pause"}
       \/ pc = "fetch" /\ pc' # "fetch"

IssuedWithCircuitClosed ==
    IssuesCheckOrFetch => ~circuit_open /\ consecutive_failures < max_failures

BreakerInRange ==
    entry = "run_loop" =>
        /\ consecutive_failures \in 0..max_failures
        /\ circuit_open => consecutive_failures = max_failures

\* C32: in run_loop consecutive_failures stays within 0..max_failures, the
\* circuit is open only while consecutive_failures equals max_failures, and
\* every pause check and every fetch is issued with the circuit closed and
\* consecutive_failures below max_failures.
C32_BreakerBounds == []BreakerInRange /\ [][IssuedWithCircuitClosed]_vars

\* a fetch is about to be issued one failure short of the limit
C32_Witness ==
    /\ entry = "run_loop"
    /\ pc = "fetch"
    /\ ~circuit_open
    /\ consecutive_failures = max_failures - 1
    /\ streak = max_failures - 1

\* the calls execute_task issued in the current invocation, in order
IsExecuteCall(c) == c.op \in {"get_next_task", "update_task_status", "log_event"}
ExecuteCalls == SelectSeq(trace, IsExecuteCall)

\* an execute_task call is over: it was entered and has left its last await
ExecuteTaskOver ==
    /\ entry \in {"run_loop", "run_once", "execute_task"}
    /\ ExecuteCalls # <<>>
    /\ \/ pc \in {"done", "raised", "sleep_interval", "sleep_backoff"}
       \/ pc = "loop_top" /\ circuit_open

\* the call raised to its caller
ExecuteTaskRaised ==
    \/ pc \in {"raised", "sleep_backoff"}
    \/ pc = "loop_top" /\ circuit_open

NoTaskTrace ==
    /\ Len(ExecuteCalls) = 1
    /\ ExecuteCalls[1].op = "get_next_task" /\ ExecuteCalls[1].id = NoTask

CompletedTrace ==
    /\ cur # NoTask
    /\ ExecuteCalls = <<ExecuteCalls[1],
                        Call("update_task_status", cur, "done"),
                        Call("log_event", cur, "task_completed")>>
    /\ ExecuteCalls[1].op = "get_next_task" /\ ExecuteCalls[1].id = cur

FailedTrace ==
    /\ cur # NoTask
    /\ ExecuteCalls = <<ExecuteCalls[1],
                        Call("update_task_status", cur, "blocked"),
                        Call("log_event", cur, "task_failed")>>
    /\ ExecuteCalls[1].op = "get_next_task" /\ ExecuteCalls[1].id = cur

OneOfThreeTraces ==
    ExecuteTaskOver =>
        IF ExecuteTaskRaised THEN FailedTrace /\ raised_stage # ""
        ELSE IF cur = NoTask THEN NoTaskTrace
        ELSE CompletedTrace /\ raised_stage = ""

\* C31: every execute_task call leaves one of three traces: no task, so no
\* event and no status update; a result, so the done update followed by one
\* task_completed event; a raise, so one task_failed event logged before the
\* exception reaches the caller, after the blocked update of the pipeline.
C31_ThreeTraces == OneOfThreeTraces

\* run_loop's handler received the exception of a failed pipeline after the
\* blocked update and the single task_failed event
C31_Witness ==
    /\ entry = "run_loop"
    /\ pc = "sleep_backoff"
    /\ raised_stage = "quality_checks"
    /\ FailedTrace

DoneIffNoRaise ==
    /\ (pc \in {"mark_blocked", "log_failed"} /\ cur # NoTask) => raised_stage # ""
    /\ pc \in {"mark_done", "log_completed"} =>
          /\ raised_stage = ""
          /\ completed = StagePc
          /\ task_result.quality_checks \in QualityOveralls
          /\ task_result.status = "completed"
          /\ task_result.pr = cur
    /\ pc = "log_completed" =>
          HasCall(trace, Call("update_task_status", cur, "done"))

\* C36: whether a task ends done or blocked depends only on whether a stage
\* raised: a task whose quality checks came out "fail" while no stage raised
\* is still marked done, gets its PR record and is returned with status
\* completed.
C36_QualityDoesNotGate == DoneIffNoRaise

\* the quality checks failed, the task was marked done all the same and the
\* result about to be returned says completed and carries the PR record
C36_Witness ==
    /\ pc = "log_completed"
    /\ task_result.quality_checks = "fail"
    /\ task_result.status = "completed"
    /\ task_result.pr = cur
    /\ tasks[cur] = "done"
    /\ HasCall(trace, Call("update_task_status", cur, "done"))

\* C34 (as claimed): every task a runner fetched leaves in_progress: once
\* execute_task has returned or raised for the task, the task source holds
\* it as done or blocked, also when the status-update call failed.
C34_FetchedTaskSettled ==
    (ExecuteTaskOver /\ cur # NoTask) => tasks[cur] \in {"done", "blocked"}

\* C25: the next-task operation returns the todo task with the smallest
\* priority number and sets it in_progress before returning, or returns no
\* task when none is todo; whatever the interleaving of the next-task calls
\* of two runners, no task is handed out twice while it stays out of todo
\* (a task is handed out only when it is todo, and between two writes of its
\* status it is handed to at most one runner).
NextTaskStep == source_ret'.op = "get_next_task"

NextTaskExact ==
    NextTaskStep =>
        LET t == source_ret'.task
            todo == {i \in TaskIds : tasks[i] = "todo"}
        IN  IF todo = {}
            THEN t = NoTask /\ tasks' = tasks
            ELSE /\ t \in todo
                 /\ \A j \in todo : Prio(t) <= Prio(j)
                 /\ tasks' = [tasks EXCEPT ![t] = "in_progress"]

HandedOutOnce == \A i \in DOMAIN holders : Len(holders[i]) <= 1

C25_NextTaskExclusive == [][NextTaskExact]_vars /\ []HandedOutOnce

\* each of the two runners holds a task of its own
C25_Witness ==
    /\ source_ret.op = "get_next_task"
    /\ \E i, j \in DOMAIN holders :
            i # j /\ holders[i] = <<1>> /\ holders[j] = <<2>>

(***************************************************************************)
(* CacheService (corehub/services/cache.py)                                *)
(***************************************************************************)
Keys == {"user:1", "user:2"}
\* "None" is Python's None, which a caller may store like any value.
Values == {"v1", "None"}
TTLs == {1}
NoEntry == [value |-> "None", expires_at |-> -1, created_at |-> -1, ttl |-> -1]
Patterns == {"user:1", "user:", "product:"}

\* re.match(pattern, key) for the literal patterns above: a prefix match.
Matches(pattern, key) ==
    CASE pattern = "user:" -> key \in {"user:1", "user:2"}
      [] pattern = "user:1" -> key = "user:1"
      [] OTHER -> FALSE

Present(c) == {k \in Keys : c[k] # NoEntry}

\* n_sets counts up to the number of keys: the store never holds more
\* entries than that for get and cleanup_expired to evict
SetsCap == Cardinality(Keys)

\* self.stats["size"] = len(self.cache) (cache.py:48, 77)
SizeKept(c) == stats.size
SizeOf(c) == Cardinality(Present(c))

\* datetime.utcnow() > entry["expires_at"]
ExpiredInverted(e, t) == t < e.expires_at
Expired(e, t) == t > e.expires_at

\* ttl if ttl is not None else self.default_ttl
ActualTTL(has_ttl, ttl) == IF has_ttl THEN ttl ELSE default_ttl

\* the clock moves on
Tick ==
    /\ now < MaxNow
    /\ now' = now + 1
    /\ UNCHANGED <<cache, stats, cache_ret, n_sets>>

\* set reads the clock twice, at cache.py:40 for expires_at and at
\* cache.py:45 for created_at: the second reading is `late` seconds after
\* the first
Lateness == {0, 1}

\* the entry set stores (cache.py:42-47): t1, t2 are the two clock readings
StoredEntry(v, actual_ttl, t1, t2) ==
    [value |-> v, expires_at |-> t1 + actual_ttl, created_at |-> t2, ttl |-> actual_ttl]

\* set (cache.py:34-49)
CacheSet(k, v, has_ttl, ttl, late) ==
    /\ now + late <= MaxNow
    /\ cache' = [cache EXCEPT ![k] =
                    StoredEntry(v, ActualTTL(has_ttl, ttl), now, now + late)]
    /\ stats' = [stats EXCEPT !.size = SizeOf(cache')]
    /\ cache_ret' = [op |-> "set", key |-> k, arg |-> v, val |-> "None"]
    /\ n_sets' = Min(n_sets + 1, SetsCap)
    /\ now' = now + late

\* self.stats["evictions"] += 1 in get (cache.py:59)
GetEvictionsTwice(ev) == ev + 2
GetEvictions(ev) == ev + 1

\* get (cache.py:51-68)
CacheGet(k) ==
    /\ stats.hits + stats.misses < MaxGets
    /\ IF cache[k] # NoEntry
       THEN IF Expired(cache[k], now)
            THEN /\ cache' = [cache EXCEPT ![k] = NoEntry]
                 /\ stats' = [stats EXCEPT
                                 !.size = SizeOf(cache'),
                                 !.evictions = GetEvictions(@),
                                 !.misses = @ + 1]
                 /\ cache_ret' = [op |-> "get", key |-> k, arg |-> "", val |-> "None"]
            ELSE /\ stats' = [stats EXCEPT !.hits = @ + 1]
                 /\ cache_ret' = [op |-> "get", key |-> k, arg |-> "", val |-> cache[k].value]
                 /\ UNCHANGED cache
       ELSE /\ stats' = [stats EXCEPT !.misses = @ + 1]
            /\ cache_ret' = [op |-> "get", key |-> k, arg |-> "", val |-> "None"]
            /\ UNCHANGED cache
    /\ UNCHANGED <<now, n_sets>>

\* delete (cache.py:70-81)
CacheDelete(k) ==
    /\ IF cache[k] # NoEntry
       THEN /\ cache' = [cache EXCEPT ![k] = NoEntry]
            /\ stats' = [stats EXCEPT !.size = SizeOf(cache')]
            /\ cache_ret' = [op |-> "delete", key |-> k, arg |-> "", val |-> "True"]
       ELSE /\ cache_ret' = [op |-> "delete", key |-> k, arg |-> "", val |-> "False"]
            /\ UNCHANGED <<cache, stats>>
    /\ UNCHANGED <<now, n_sets>>

\* clear (cache.py:83-92)
CacheClear ==
    /\ cache' = [k \in Keys |-> NoEntry]
    /\ stats' = [hits |-> 0, misses |-> 0, evictions |-> 0, size |-> 0]
    /\ cache_ret' = [op |-> "clear", key |-> "", arg |-> "", val |-> "None"]
    /\ n_sets' = 0
    /\ UNCHANGED now

\* self.stats["evictions"] += 1 for each deleted key (cache.py:102-105)
CleanupEvictionsOnce(st, gone) == st.evictions + 1
CleanupEvictions(st, gone) == st.evictions + Cardinality(gone)

\* cleanup_expired (cache.py:94-108)
CacheCleanupExpired ==
    LET gone == {k \in Present(cache) : Expired(cache[k], now)}
    IN  /\ cache' = [k \in Keys |-> IF k \in gone THEN NoEntry ELSE cache[k]]
        /\ stats' = [stats EXCEPT
                        !.size = IF gone = {} THEN @ ELSE SizeOf(cache'),
                        !.evictions = CleanupEvictions(stats, gone)]
        /\ cache_ret' = [op |-> "cleanup_expired", key |-> "", arg |-> "", val |-> Cardinality(gone)]
        /\ UNCHANGED <<now, n_sets>>

\* invalidate_pattern (cache.py:124-135)
CacheInvalidatePattern(pattern) ==
    LET gone == {k \in Present(cache) : Matches(pattern, k)}
    IN  /\ cache' = [k \in Keys |-> IF k \in gone THEN NoEntry ELSE cache[k]]
        /\ stats' = [stats EXCEPT
                        !.size = IF gone = {} THEN @ ELSE SizeOf(cache')]
        /\ cache_ret' = [op |-> "invalidate_pattern", key |-> pattern, arg |-> "", val |-> Cardinality(gone)]
        /\ UNCHANGED <<now, n_sets>>

\* what get leaves behind and returns, as functions of the state (cache.py:51-68)
CacheAfterGet(k) ==
    IF cache[k] # NoEntry /\ Expired(cache[k], now)
    THEN [cache EXCEPT ![k] = NoEntry] ELSE cache

StatsAfterGet(k) ==
    IF cache[k] # NoEntry
    THEN IF Expired(cache[k], now)
         THEN [stats EXCEPT !.size = SizeOf(CacheAfterGet(k)),
                            !.evictions = GetEvictions(@),
                            !.misses = @ + 1]
         ELSE [stats EXCEPT !.hits = @ + 1]
    ELSE [stats EXCEPT !.misses = @ + 1]

GetResult(k) ==
    IF cache[k] # NoEntry /\ ~Expired(cache[k], now) THEN cache[k].value ELSE "None"

\* if result is not None: return result (cache.py:155-156)
IsCachedResult(result) == result # "None"

\* wrapper of cached(ttl) (cache.py:148-161): k is the key built from the
\* function name and the arguments, r what the function returns if invoked
CachedCall(k, r, ttl, late) ==
    /\ stats.hits + stats.misses < MaxGets
    /\ IF IsCachedResult(GetResult(k))
       THEN /\ late = 0
            /\ cache' = CacheAfterGet(k)
            /\ stats' = StatsAfterGet(k)
            /\ cache_ret' = [op |-> "cached", key |-> k, arg |-> r,
                             val |-> GetResult(k), invoked |-> FALSE]
            /\ UNCHANGED n_sets
       ELSE /\ now + late <= MaxNow
            /\ cache' = [CacheAfterGet(k) EXCEPT ![k] =
                            StoredEntry(r, ActualTTL(TRUE, ttl), now, now + late)]
            /\ stats' = [StatsAfterGet(k) EXCEPT !.size = SizeOf(cache')]
            /\ cache_ret' = [op |-> "cached", key |-> k, arg |-> r,
                             val |-> r, invoked |-> TRUE]
            /\ n_sets' = Min(n_sets + 1, SetsCap)
    /\ now' = now + late

InitCache ==
    /\ now = 0
    /\ cache = [k \in Keys |-> NoEntry]
    /\ stats = [hits |-> 0, misses |-> 0, evictions |-> 0, size |-> 0]
    /\ cache_ret = [op |-> "init", key |-> "", arg |-> "", val |-> "None"]
    /\ n_sets = 0

CacheOnly ==
    UNCHANGED <<runnerVars, sourceVars, alertVars, monVars, qualityVars, sendVars, agentVars>>

NextCache ==
    \/ Tick /\ CacheOnly
    \/ \E k \in Keys, v \in Values, has_ttl \in BOOLEAN, ttl \in TTLs, late \in Lateness :
            CacheSet(k, v, has_ttl, ttl, late) /\ CacheOnly
    \/ \E k \in Keys : CacheGet(k) /\ CacheOnly
    \/ \E k \in Keys : CacheDelete(k) /\ CacheOnly
    \/ CacheClear /\ CacheOnly
    \/ CacheCleanupExpired /\ CacheOnly
    \/ \E pattern \in Patterns : CacheInvalidatePattern(pattern) /\ CacheOnly
    \/ \E k \in Keys, r \in Values, ttl \in TTLs, late \in Lateness :
            CachedCall(k, r, ttl, late) /\ CacheOnly

CacheStart == IdleRunner /\ InitCache /\ IdleAlerts /\ IdleMonitor /\ IdleQuality /\ IdleSend

SpecCache == CacheStart /\ [][NextCache]_vars

(***************************************************************************)
(* Properties of the cache                                                 *)
(***************************************************************************)
Accesses(st) == st.hits + st.misses

\* this step is a get(k)
GetStep(k) ==
    /\ Accesses(stats') = Accesses(stats) + 1
    /\ cache_ret'.op = "get"
    /\ cache_ret'.key = k

\* the state is the one set(k, v, t) left, no time having passed
JustSet(k) ==
    /\ cache_ret.op = "set"
    /\ cache_ret.key = k
    /\ cache[k] # NoEntry
    /\ cache[k].created_at = now

GetAfterSet ==
    \A k \in Keys :
        GetStep(k) /\ JustSet(k) =>
            /\ cache[k].ttl > 0
            /\ cache_ret'.val = cache_ret.arg
            /\ stats'.hits = stats.hits + 1
            /\ stats'.misses = stats.misses
            /\ stats'.evictions = stats.evictions
            /\ cache' = cache

GetAfterExpiry ==
    \A k \in Keys :
        GetStep(k) /\ cache[k] # NoEntry /\ now > cache[k].created_at + cache[k].ttl =>
            /\ cache_ret'.val = "None"
            /\ cache'[k] = NoEntry
            /\ \A j \in Keys \ {k} : cache'[j] = cache[j]
            /\ stats'.evictions = stats.evictions + 1
            /\ stats'.misses = stats.misses + 1
            /\ stats'.hits = stats.hits

GetOfAbsent ==
    \A k \in Keys :
        GetStep(k) /\ cache[k] = NoEntry =>
            /\ cache_ret'.val = "None"
            /\ cache' = cache
            /\ stats'.evictions = stats.evictions
            /\ stats'.misses = stats.misses + 1
            /\ stats'.hits = stats.hits

\* C8: a get(k) directly after set(k, v, t), t > 0, returns v and counts one
\* hit and nothing else; a get(k) of an entry whose time t has passed returns
\* absent, removes the entry and adds exactly one eviction and one miss; a
\* get(k) of a key with no entry (as after that removal) adds one miss and no
\* eviction.
C8_SetGetExpire ==
    /\ [][GetAfterSet]_vars
    /\ [][GetAfterExpiry]_vars
    /\ [][GetOfAbsent]_vars

\* C8 witness: one hit right after the set, then the expired get (one
\* eviction, one miss), then a further get that only adds a miss.
C8_Witness ==
    /\ cache_ret.op = "get"
    /\ cache[cache_ret.key] = NoEntry
    /\ stats = [hits |-> 1, misses |-> 2, evictions |-> 1, size |-> 0]
    /\ now = MaxNow

\* a call of the wrapped function that found an unexpired entry under its key
CachedCallOnLiveEntry ==
    /\ Accesses(stats') = Accesses(stats) + 1
    /\ cache_ret'.op = "cached"
    /\ cache[cache_ret'.key] # NoEntry
    /\ ~Expired(cache[cache_ret'.key], now)

CachedCallReusesResult ==
    CachedCallOnLiveEntry =>
        /\ ~cache_ret'.invoked
        /\ cache_ret'.val = cache[cache_ret'.key].value
        /\ cache'[cache_ret'.key] = cache[cache_ret'.key]

\* C16 (as claimed): a call of a cached(ttl) function whose key holds an
\* entry stored within the TTL returns the stored result and does not invoke
\* the wrapped function, whatever value that result is.
C16_CachedCallReuses == [][CachedCallReusesResult]_vars

\* C26 (as claimed): every entry in the store satisfies expires_at =
\* created_at + ttl, and a get never returns the value of an entry whose
\* expires_at is before the current time.
EntriesConsistent ==
    \A k \in DOMAIN cache :
        cache[k] # NoEntry => cache[k].expires_at = cache[k].created_at + cache[k].ttl

GetNeverStale ==
    \A k \in Keys :
        GetStep(k) /\ cache[k] # NoEntry /\ cache[k].expires_at < now =>
            cache_ret'.val = "None"

C26_ExpiryConsistent == []EntriesConsistent /\ [][GetNeverStale]_vars

\* the step of a cache operation, named by what it reports
CacheOpStep(ops) == (stats' # stats \/ cache' # cache) /\ cache_ret'.op \in ops

GetCountsOnce ==
    CacheOpStep({"get", "cached"}) =>
        \/ stats'.hits = stats.hits + 1 /\ stats'.misses = stats.misses
        \/ stats'.hits = stats.hits /\ stats'.misses = stats.misses + 1

OthersLeaveCounts ==
    /\ CacheOpStep({"set", "delete", "cleanup_expired", "invalidate_pattern"}) =>
            stats'.hits = stats.hits /\ stats'.misses = stats.misses
    /\ CacheOpStep({"clear"}) => stats'.hits = 0 /\ stats'.misses = 0

SizeIsStoreSize == stats.size = Cardinality(Present(cache))

AccessesCounted == GetCountsOnce /\ OthersLeaveCounts

\* C37: after any sequence of set, get, delete, clear, cleanup_expired and
\* invalidate_pattern calls the size statistic is the number of entries in
\* the store, and hits + misses is the number of get calls since the last
\* clear: each get adds one to exactly one of the two and no other call
\* touches them.
C37_StatsMatchStore == []SizeIsStoreSize /\ [][AccessesCounted]_vars

\* one hit and one miss were counted, then a cleanup removed one of two entries
C37_Witness ==
    /\ cache_ret.op = "cleanup_expired"
    /\ cache_ret.val = 1
    /\ stats.hits = 1
    /\ stats.misses = 1
    /\ stats.size = 1
    /\ Cardinality(Present(cache)) = 1

\* an expired entry is physically removed by get or by cleanup_expired
EvictedNow ==
    IF CacheOpStep({"get", "cleanup_expired"})
    THEN {k \in Present(cache) : Expired(cache[k], now) /\ cache'[k] = NoEntry}
    ELSE {}

EvictionsExact ==
    /\ CacheOpStep({"get", "cleanup_expired"}) =>
            stats'.evictions = stats.evictions + Cardinality(EvictedNow)
    /\ CacheOpStep({"get"}) => Cardinality(EvictedNow) <= 1
    /\ CacheOpStep({"set", "delete", "invalidate_pattern"}) =>
            stats'.evictions = stats.evictions
    /\ CacheOpStep({"clear"}) => stats'.evictions = 0

\* n_sets stops counting at SetsCap: from there on it is a lower bound
EvictionsWithinSets == n_sets < SetsCap => stats.evictions <= n_sets

\* C38: evictions counts each expired entry at most once: it grows by one
\* when get or cleanup_expired physically removes an expired entry, delete,
\* an overwriting set and invalidate_pattern leave it alone, and it never
\* exceeds the number of set calls since the last clear.
C38_EvictionsCountedOnce == [][EvictionsExact]_vars /\ []EvictionsWithinSets

\* the one entry set since the last clear expired and a get evicted it
C38_Witness ==
    /\ cache_ret.op = "get"
    /\ n_sets = 1
    /\ stats.evictions = 1
    /\ stats.misses = 1
    /\ Present(cache) = {}

\* C22: cleanup_expired removes exactly the entries whose expires_at is
\* before the current time, returns the number removed, adds that number to
\* evictions, and leaves the unexpired entries, hits and misses unchanged.
CleanupStep == cache_ret'.op = "cleanup_expired" /\ now' = now

PastExpiry == {k \in Keys : cache[k] # NoEntry /\ cache[k].expires_at < now}

CleanupExact ==
    CleanupStep =>
        /\ \A k \in Keys : cache'[k] = IF k \in PastExpiry THEN NoEntry ELSE cache[k]
        /\ cache_ret'.val = Cardinality(PastExpiry)
        /\ stats'.evictions = stats.evictions + Cardinality(PastExpiry)
        /\ stats'.hits = stats.hits
        /\ stats'.misses = stats.misses

C22_CleanupExact == [][CleanupExact]_vars

\* a cleanup removed one expired entry and kept an unexpired one
C22_Witness ==
    /\ cache_ret.op = "cleanup_expired"
    /\ cache_ret.val = 1
    /\ Present(cache) # {}
    /\ stats.evictions = 1

(***************************************************************************)
(* AlertManager (corehub/services/alerts.py)                               *)
(***************************************************************************)
AlertTypes == {"high_cpu", "disk_full"}
Users == {"ops"}
\* notification_channels: the channels that are configured
Channels == {"email", "webhook"}
NoRule == [cooldown_minutes |-> -1, notification_channels |-> {}]
\* alert_rules: "disk_full" has a rule (no cooldown, webhook and an
\* unconfigured channel), "high_cpu" has none.
AlertRules ==
    [t \in AlertTypes |->
        IF t = "disk_full"
        THEN [cooldown_minutes |-> 0, notification_channels |-> {"webhook", "slack"}]
        ELSE NoRule]

\* a second no clock reading has: the time part of an id nobody recorded
NoTime == -1
\* datetime.utcnow().isoformat() (alerts.py:364, 376): the text is stored and
\* never read back by the manager, so only its being set is kept
IsoStamp(t) == "iso"
\* f"{alert_type}_{int(datetime.utcnow().timestamp())}"
AlertId(type, t) == <<type, t>>

Range(q) == {q[k] : k \in 1..Len(q)}

\* the clock moves on by a second or, once, by a default cooldown
AlertTick ==
    /\ \E d \in {1, 60 * default_cooldown_minutes} :
        /\ IF d = 1
           THEN (now % (60 * default_cooldown_minutes)) + 1 < MaxNow
           ELSE now < 60 * default_cooldown_minutes
        /\ now' = now + d
    /\ UNCHANGED <<alerts, alert_history, cooldowns, sent, alert_ret>>

\* _is_in_cooldown (alerts.py:315-321)
IsInCooldown(type) ==
    IF type \notin DOMAIN cooldowns THEN FALSE ELSE now < cooldowns[type]

\* _set_cooldown (alerts.py:323-332)
CooldownMinutes(type) ==
    IF AlertRules[type] # NoRule THEN AlertRules[type].cooldown_minutes
    ELSE default_cooldown_minutes

\* _send_notifications (alerts.py:336-346): the channels send is called on
SelectedChannels(type) ==
    IF AlertRules[type] # NoRule
    THEN AlertRules[type].notification_channels \cap Channels
    ELSE Channels

\* the order the channels are iterated in
ChannelOrder == <<"email", "webhook">>

\* what channel.send may do: return True, return False, raise
Outcomes == {"ok", "false", "raise"}

\* except Exception as e: logger.error(...) (alerts.py:353-354): nothing a
\* channel raises leaves _send_notifications
PropagatesRaise(outcome) == outcome = "raise"
Propagates(outcome) == FALSE

\* the send calls of one dispatch, in order; out gives each channel's outcome
RECURSIVE SendAll(_, _, _, _)
SendAll(id, type, k, out) ==
    IF k > Len(ChannelOrder) THEN <<>>
    ELSE IF ChannelOrder[k] \in SelectedChannels(type)
         THEN <<[id |-> id, channel |-> ChannelOrder[k], outcome |-> out[ChannelOrder[k]]]>>
              \o (IF Propagates(out[ChannelOrder[k]]) THEN <<>>
                  ELSE SendAll(id, type, k + 1, out))
         ELSE SendAll(id, type, k + 1, out)

\* the calls as the channels saw them
Issued(calls) == [k \in 1..Len(calls) |-> [id |-> calls[k].id, channel |-> calls[k].channel]]

\* what each called channel did
Results(calls) ==
    [ch \in {calls[k].channel : k \in 1..Len(calls)} |->
        calls[CHOOSE k \in 1..Len(calls) : calls[k].channel = ch].outcome]

\* the dispatch ended by an exception leaving _send_notifications
Escaped(calls) == calls # <<>> /\ Propagates(calls[Len(calls)].outcome)

NewAlert(type) ==
    [type |-> type, status |-> "active", timestamp |-> now,
     acknowledged_by |-> "None", acknowledged_at |-> "None", resolved_at |-> "None"]

\* create_alert (alerts.py:279-313)
CreateAlert(type, out) ==
    LET id == AlertId(type, now)
        calls == SendAll(id, type, 1, out)
    IN  IF IsInCooldown(type)
        THEN /\ alert_ret' = [op |-> "create_alert", id |-> id, val |-> "alert",
                              in_cooldown |-> TRUE, out |-> <<>>, before |-> "None"]
             /\ UNCHANGED <<alerts, alert_history, cooldowns, sent, now>>
        ELSE /\ Len(alert_history) < MaxAlerts
             /\ alerts' = (id :> NewAlert(type)) @@ alerts
             /\ alert_history' = Append(alert_history, id)
             /\ sent' = sent \o Issued(calls)
             /\ IF Escaped(calls)
                THEN /\ UNCHANGED cooldowns
                     /\ alert_ret' = [op |-> "create_alert", id |-> id, val |-> "raised",
                                      in_cooldown |-> FALSE, out |-> Results(calls), before |-> "None"]
                ELSE /\ cooldowns' = (type :> now + 60 * CooldownMinutes(type)) @@ cooldowns
                     /\ alert_ret' = [op |-> "create_alert", id |-> id, val |-> "alert",
                                      in_cooldown |-> FALSE, out |-> Results(calls), before |-> "None"]
             /\ UNCHANGED now

\* the channels a create_alert call reaches: none while the type is in cooldown
Called(type) == IF IsInCooldown(type) THEN {} ELSE SelectedChannels(type)

\* the ids a caller may pass: the recorded ones and one that is unknown
KnownOrNot == DOMAIN alerts \cup {AlertId("high_cpu", NoTime)}

\* alerts.py:362-364
AlertAcknowledged(alert, by, t) ==
    [alert EXCEPT !.status = "acknowledged", !.acknowledged_by = by,
                  !.acknowledged_at = IsoStamp(t)]

\* alerts.py:375-376
AlertResolvedToggle(alert, t) ==
    [alert EXCEPT !.status = IF @ = "resolved" THEN "active" ELSE "resolved",
                  !.resolved_at = IsoStamp(t)]
AlertResolvedAnew(alert, t) ==
    [alert EXCEPT !.status = "resolved", !.resolved_at = IsoStamp(t),
                  !.acknowledged_by = "None", !.acknowledged_at = "None"]
AlertResolved(alert, t) ==
    [alert EXCEPT !.status = "resolved", !.resolved_at = IsoStamp(t)]

\* acknowledge_alert (alerts.py:356-367)
AcknowledgeAlert(id, by) ==
    /\ IF id \notin DOMAIN alerts
       THEN /\ alert_ret' = [op |-> "acknowledge_alert", id |-> id, val |-> "False",
                             in_cooldown |-> FALSE, out |-> <<>>, before |-> "None"]
            /\ UNCHANGED alerts
       ELSE /\ alerts' = [alerts EXCEPT ![id] = AlertAcknowledged(@, by, now)]
            /\ alert_ret' = [op |-> "acknowledge_alert", id |-> id, val |-> "True",
                             in_cooldown |-> FALSE, out |-> <<>>,
                             before |-> alerts[id].status]
    /\ UNCHANGED <<alert_history, cooldowns, sent, now>>

\* resolve_alert (alerts.py:369-379)
ResolveAlert(id) ==
    /\ IF id \notin DOMAIN alerts
       THEN /\ alert_ret' = [op |-> "resolve_alert", id |-> id, val |-> "False",
                             in_cooldown |-> FALSE, out |-> <<>>, before |-> "None"]
            /\ UNCHANGED alerts
       ELSE /\ alerts' = [alerts EXCEPT ![id] = AlertResolved(@, now)]
            /\ alert_ret' = [op |-> "resolve_alert", id |-> id, val |-> "True",
                             in_cooldown |-> FALSE, out |-> <<>>,
                             before |-> alerts[id].status]
    /\ UNCHANGED <<alert_history, cooldowns, sent, now>>

InitAlerts ==
    /\ now = 0
    /\ alerts = <<>>
    /\ alert_history = <<>>
    /\ cooldowns = <<>>
    /\ sent = <<>>
    /\ alert_ret = [op |-> "init", id |-> AlertId("high_cpu", NoTime), val |-> "None",
                    in_cooldown |-> FALSE, out |-> <<>>, before |-> "None"]

IdleCacheState ==
    /\ cache = <<>>
    /\ stats = <<>>
    /\ cache_ret = <<>>
    /\ n_sets = 0

AlertOnly ==
    UNCHANGED <<runnerVars, sourceVars, cacheVars, monVars, qualityVars, sendVars, agentVars>>

NextAlert ==
    \/ AlertTick /\ AlertOnly
    \/ \E type \in AlertTypes : \E out \in [Called(type) -> Outcomes] :
            CreateAlert(type, out) /\ AlertOnly
    \/ \E id \in KnownOrNot, by \in Users : AcknowledgeAlert(id, by) /\ AlertOnly
    \/ \E id \in KnownOrNot : ResolveAlert(id) /\ AlertOnly

AlertStart == IdleRunner /\ IdleCacheState /\ InitAlerts /\ IdleMonitor /\ IdleQuality /\ IdleSend

SpecAlert == AlertStart /\ [][NextAlert]_vars

\* ---- create_alert calls of concurrent tasks ----
\* the monitoring loops call create_alert from separate tasks of one event
\* loop (monitor.py:157-251); a call gives way to the others only where it
\* awaits, inside _send_notifications (alerts.py:307, 349)
Callers == {1, 2}
NoCall == <<>>

\* alerts.py:283-307: id, cooldown check and recording run without an await;
\* then the call is suspended in the first channel's send. A type with no
\* channel to send to has nothing to await and goes on to alerts.py:310.
CreateBegin(c, type) ==
    LET id == AlertId(type, now)
    IN  /\ in_send[c] = NoCall
        /\ IF IsInCooldown(type)
           THEN /\ alert_ret' = [op |-> "create_alert", id |-> id, val |-> "alert",
                                 in_cooldown |-> TRUE, out |-> <<>>, before |-> "None"]
                /\ UNCHANGED <<alerts, alert_history, cooldowns, in_send>>
           ELSE /\ Len(alert_history) < MaxAlerts
                /\ alerts' = (id :> NewAlert(type)) @@ alerts
                /\ alert_history' = Append(alert_history, id)
                /\ IF SelectedChannels(type) = {}
                   THEN /\ cooldowns' = (type :> now + 60 * CooldownMinutes(type)) @@ cooldowns
                        /\ alert_ret' = [op |-> "create_alert", id |-> id, val |-> "alert",
                                         in_cooldown |-> FALSE, out |-> <<>>, before |-> "None"]
                        /\ UNCHANGED in_send
                   ELSE /\ in_send' = [in_send EXCEPT ![c] = [type |-> type, id |-> id]]
                        /\ UNCHANGED <<cooldowns, alert_ret>>
        /\ UNCHANGED <<sent, now>>

\* alerts.py:349-313: the sends are over, the cooldown is set from the clock
\* as it reads now, the call returns
CreateFinish(c, out) ==
    /\ in_send[c] # NoCall
    /\ LET type == in_send[c].type
           id == in_send[c].id
           calls == SendAll(id, type, 1, out)
       IN  /\ sent' = sent \o Issued(calls)
           /\ cooldowns' = (type :> now + 60 * CooldownMinutes(type)) @@ cooldowns
           /\ alert_ret' = [op |-> "create_alert", id |-> id, val |-> "alert",
                            in_cooldown |-> FALSE, out |-> Results(calls), before |-> "None"]
    /\ in_send' = [in_send EXCEPT ![c] = NoCall]
    /\ UNCHANGED <<alerts, alert_history, now>>

InitSend == in_send = [c \in Callers |-> NoCall]

AlertTasksOnly ==
    UNCHANGED <<runnerVars, sourceVars, cacheVars, monVars, qualityVars, agentVars>>

\* the built-in channels do blocking I/O inside send (alerts.py:91-232), so a
\* call through them runs to its end without giving way: CreateAlert; a
\* channel whose send awaits network I/O suspends the call: CreateBegin
NextAlertTasks ==
    \/ AlertTick /\ UNCHANGED in_send /\ AlertTasksOnly
    \/ \E type \in AlertTypes : \E out \in [Called(type) -> Outcomes] :
            CreateAlert(type, out) /\ UNCHANGED in_send /\ AlertTasksOnly
    \/ \E c \in Callers, type \in AlertTypes : CreateBegin(c, type) /\ AlertTasksOnly
    \/ \E c \in Callers : in_send[c] # NoCall /\
          \E out \in [SelectedChannels(in_send[c].type) -> Outcomes] :
              CreateFinish(c, out) /\ AlertTasksOnly

AlertTasksStart ==
    /\ IdleRunner /\ IdleCacheState /\ InitAlerts /\ IdleMonitor /\ IdleQuality /\ InitSend
    /\ agent = <<>> /\ proc = <<>>

SpecAlertTasks == AlertTasksStart /\ [][NextAlertTasks]_vars

(***************************************************************************)
(* Properties of the alert manager                                         *)
(***************************************************************************)
StatusRank(st) == CASE st = "active" -> 0
                    [] st = "acknowledged" -> 1
                    [] st = "resolved" -> 2
                    [] OTHER -> 3

StatusForward ==
    alert_ret'.op \in {"acknowledge_alert", "resolve_alert"} =>
        \A id \in DOMAIN alerts :
            /\ id \in DOMAIN alerts'
            /\ StatusRank(alerts'[id].status) >= StatusRank(alerts[id].status)

\* C9 (as claimed): no acknowledge_alert or resolve_alert call moves the
\* status of an alert backwards along active -> acknowledged -> resolved.
C9_StatusMonotonic == [][StatusForward]_vars

\* a create_alert call that found its type in cooldown
CooldownCreateStep ==
    /\ alert_ret' # alert_ret
    /\ alert_ret'.op = "create_alert"
    /\ alert_ret'.in_cooldown

CooldownCreateRecords ==
    CooldownCreateStep =>
        /\ alert_ret'.id \in DOMAIN alerts'
        /\ Len(alert_history') = Len(alert_history) + 1
        /\ alert_history'[Len(alert_history')] = alert_ret'.id
        /\ sent' = sent

\* C10 (as claimed): a create_alert call made while its type is in cooldown
\* records its alert all the same (the history gains an entry and the alerts
\* map holds the alert) and dispatches no notification.
C10_CooldownStillRecords == [][CooldownCreateRecords]_vars

\* a create_alert call that recorded its alert
RecordingCreateStep ==
    /\ alert_ret'.op = "create_alert"
    /\ Len(alert_history') = Len(alert_history) + 1

\* the send calls this step issued
NewCalls == SubSeq(sent', Len(sent) + 1, Len(sent'))

DispatchSurvivesFailure ==
    RecordingCreateStep =>
        LET id == alert_ret'.id
        IN  /\ \A ch \in SelectedChannels(id[1]) :
                    \E k \in 1..Len(NewCalls) :
                        NewCalls[k].id = id /\ NewCalls[k].channel = ch
            /\ alert_ret'.val = "alert"
            /\ id \in DOMAIN alerts'
            /\ alert_history'[Len(alert_history')] = id
            /\ id[1] \in DOMAIN cooldowns'
            /\ cooldowns'[id[1]] = now + 60 * CooldownMinutes(id[1])

\* C11: a channel whose send raises or returns False does not keep send from
\* being called on every remaining selected channel, and create_alert still
\* returns the alert, records it and sets the cooldown.
C11_ChannelFailureIsolated == [][DispatchSurvivesFailure]_vars

\* the first channel raised, the second one was still called, the call returned
C11_Witness ==
    /\ alert_ret.op = "create_alert"
    /\ alert_ret.val = "alert"
    /\ alert_ret.id \in DOMAIN alerts
    /\ DOMAIN alert_ret.out = {"email", "webhook"}
    /\ alert_ret.out["email"] = "raise"
    /\ alert_ret.out["webhook"] = "false"
    /\ \E i, j \in 1..Len(sent) :
            /\ i < j
            /\ sent[i].id = alert_ret.id /\ sent[i].channel = "email"
            /\ sent[j].id = alert_ret.id /\ sent[j].channel = "webhook"

AcknowledgeStep == alert_ret' # alert_ret /\ alert_ret'.op = "acknowledge_alert"
ResolveStep == alert_ret' # alert_ret /\ alert_ret'.op = "resolve_alert"

AcknowledgeSucceeds ==
    (AcknowledgeStep /\ alert_ret'.id \in DOMAIN alerts) =>
        /\ alert_ret'.val = "True"
        /\ alerts'[alert_ret'.id].status = "acknowledged"
        /\ alerts'[alert_ret'.id].acknowledged_by \in Users
        /\ alerts'[alert_ret'.id].acknowledged_at = IsoStamp(now)

ResolveAfterAcknowledge ==
    (/\ ResolveStep
     /\ alert_ret'.id \in DOMAIN alerts
     /\ alerts[alert_ret'.id].status = "acknowledged") =>
        /\ alert_ret'.val = "True"
        /\ alerts'[alert_ret'.id].status = "resolved"
        /\ alerts'[alert_ret'.id].resolved_at = IsoStamp(now)
        /\ alerts'[alert_ret'.id].acknowledged_by = alerts[alert_ret'.id].acknowledged_by
        /\ alerts'[alert_ret'.id].acknowledged_at = alerts[alert_ret'.id].acknowledged_at
        /\ alerts'[alert_ret'.id].acknowledged_at # "None"

AcknowledgedNeverActive ==
    \A id \in DOMAIN alerts :
        alerts[id].acknowledged_at # "None" => alerts[id].status # "active"

\* C12: on a recorded alert, acknowledge_alert and then resolve_alert both
\* return True, the alert ends resolved with acknowledged_by, acknowledged_at
\* and resolved_at set, and it is never active once it was acknowledged.
C12_AcknowledgeThenResolve ==
    /\ [][AcknowledgeSucceeds]_vars
    /\ [][ResolveAfterAcknowledge]_vars
    /\ []AcknowledgedNeverActive

C12_Witness ==
    /\ alert_ret.op = "resolve_alert"
    /\ alert_ret.val = "True"
    /\ alert_ret.id \in DOMAIN alerts
    /\ alerts[alert_ret.id].status = "resolved"
    /\ alerts[alert_ret.id].acknowledged_by = "ops"
    /\ alerts[alert_ret.id].acknowledged_at # "None"
    /\ alerts[alert_ret.id].resolved_at # "None"

\* C29: resolve_alert on an alert that is already resolved leaves it
\* resolved and returns True again: two calls give the status one call gives.
ResolveOfResolved ==
    /\ ResolveStep
    /\ alert_ret'.id \in DOMAIN alerts
    /\ alerts[alert_ret'.id].status = "resolved"

ResolveIdempotent ==
    ResolveOfResolved =>
        /\ alert_ret'.val = "True"
        /\ alert_ret'.before = "resolved"
        /\ alerts'[alert_ret'.id].status = "resolved"
        /\ \A id \in DOMAIN alerts : alerts'[id].status = alerts[id].status

C29_ResolveIdempotent == [][ResolveIdempotent]_vars

\* resolve_alert was applied to an alert that was resolved already
C29_Witness ==
    /\ alert_ret.op = "resolve_alert"
    /\ alert_ret.before = "resolved"
    /\ alert_ret.val = "True"
    /\ alerts[alert_ret.id].status = "resolved"

\* C35 (as claimed): every recorded alert keeps its own entry: the alerts
\* map holds as many entries as alert_history, no create_alert overwrites an
\* earlier alert, also for a type whose rule has cooldown_minutes = 0.
C35_OneEntryPerAlert == Cardinality(DOMAIN alerts) = Len(alert_history)

\* a create_alert call passes its cooldown check and records an alert
RecordsAlert == Len(alert_history') = Len(alert_history) + 1

\* some call for the type has passed the check and not yet set the cooldown
BetweenCheckAndSet(type) ==
    \E c \in Callers : in_send[c] # NoCall /\ in_send[c].type = type

RecordsAlone ==
    RecordsAlert => ~BetweenCheckAndSet(alert_history'[Len(alert_history')][1])

\* C33 (as claimed): of two create_alert calls for one type in flight at the
\* same time, the first suspended inside a channel's send, at most one
\* records an alert and dispatches: the second call's cooldown check cannot
\* pass between the first call's cooldown check and its cooldown set.
C33_OneDispatchPerWindow == [][RecordsAlone]_vars

\* a create_alert call
CreateStep == alert_ret' # alert_ret /\ alert_ret'.op = "create_alert"

\* the cooldown duration in seconds the claim states for a type
ClaimedCooldown(type) ==
    60 * (IF AlertRules[type] = NoRule THEN 5 ELSE AlertRules[type].cooldown_minutes)

CreateSetsCooldown ==
    CreateStep =>
        /\ alert_ret'.id[1] \in DOMAIN cooldowns'
        /\ cooldowns'[alert_ret'.id[1]] = now + ClaimedCooldown(alert_ret'.id[1])

\* C24 (as claimed): every create_alert call, also one made while its type
\* is in cooldown, sets the cooldown-until time of the type to the current
\* time plus the cooldown duration of the type.
C24_EveryCreateSetsCooldown == [][CreateSetsCooldown]_vars

(***************************************************************************)
(* MetricsCollector (corehub/services/metrics.py) and MonitoringService    *)
(* (corehub/services/monitor.py)                                           *)
(***************************************************************************)
Families == {"system", "application", "agents", "business"}
Loops == {"system", "application", "agents", "business", "alert_check"}
\* metric_type arguments: two families and a name no family has
MetricTypes == {"system", "agents", "network"}
\* hours arguments: none, one, and one reaching before datetime.min
Hours == {0, 1, 20000000}
SecondsPerHour == 3600
\* hours between datetime.min and the start of the model's clock
HoursSinceMin == 17758084

\* datetime.utcnow().isoformat() and datetime.fromisoformat(...)
IsoFormat(t) == <<"iso", t>>
FromIsoFormat(s) == s[2]

\* self.thresholds (metrics.py:87-94), the entries check_alerts reads
thresholds == [cpu_percent |-> 80, memory_percent |-> 85, disk_percent |-> 90,
               error_rate |-> 5, response_time |-> 2]

\* the fields of a sample that check_alerts reads, per family
Readings(f) ==
    CASE f = "system" -> {"cpu_percent", "memory_percent", "disk_percent"}
      [] f = "application" -> {"error_rate", "response_time_avg"}
      [] OTHER -> {}

\* the threshold a field is compared with (metrics.py:288, 299, 310, 325, 336)
ThresholdOf(field) ==
    IF field = "response_time_avg" THEN thresholds.response_time ELSE thresholds[field]

\* a sample of family f taken at t whose fields read r
Sample(f, t, r) == [timestamp |-> IsoFormat(t), readings |-> r]

\* a sample with every field at its threshold
AtThreshold(f) == [field \in Readings(f) |-> ThresholdOf(field)]

\* the sample the periodic loops collect: the readings play no part there
NewSample(f, t) == Sample(f, t, AtThreshold(f))

\* deque(maxlen=...).append
DequeAppendLeft(q, x) ==
    IF Len(q) >= maxlen THEN <<x>> \o SubSeq(q, 1, Len(q) - 1) ELSE <<x>> \o q
DequeAppendUnbounded(q, x) == Append(q, x)
DequeAppend(q, x) ==
    IF Len(q) >= maxlen THEN Append(Tail(q), x) ELSE Append(q, x)

\* the clock moves on by a second or, once, by an hour
MonTick ==
    /\ \E d \in {1, SecondsPerHour} :
        /\ IF d = 1
           THEN (now % SecondsPerHour) + 1 < MaxNow
           ELSE now < SecondsPerHour
        /\ now' = now + d
    /\ UNCHANGED monVars

MonRet(op, who, hours, exc, sleep, val) ==
    [op |-> op, who |-> who, hours |-> hours, exc |-> exc, sleep |-> sleep, val |-> val]

\* datetime.utcnow() - timedelta(hours=hours) raises OverflowError when the
\* result lies before datetime.min (metrics.py:385)
CutoffOverflows(hours) == hours > HoursSinceMin + (now \div SecondsPerHour)

\* the for loop of get_historical_metrics (metrics.py:388-391)
RECURSIVE Historical(_, _, _)
Historical(q, k, cutoff_time) ==
    IF k > Len(q) THEN <<>>
    ELSE (IF FromIsoFormat(q[k].timestamp) >= cutoff_time THEN <<q[k]>> ELSE <<>>)
         \o Historical(q, k + 1, cutoff_time)

\* get_historical_metrics (metrics.py:380-393)
GetHistoricalMetrics(metric_type, hours) ==
    /\ mon_ret' =
          IF metric_type \notin DOMAIN metrics_history
          THEN MonRet("get_historical_metrics", metric_type, hours, FALSE, 0, <<>>)
          ELSE IF CutoffOverflows(hours)
          THEN MonRet("get_historical_metrics", metric_type, hours, TRUE, 0, <<>>)
          ELSE MonRet("get_historical_metrics", metric_type, hours, FALSE, 0,
                      Historical(metrics_history[metric_type], 1,
                                 now - SecondsPerHour * hours))
    /\ UNCHANGED <<metrics_history, n_collected, metric_alerts, running, loop_pc, now>>

\* the checks of check_alerts in the order of the code (metrics.py:288-344)
Rules == <<[family |-> "system", field |-> "cpu_percent",
            type |-> "cpu_high", severity |-> "warning"],
           [family |-> "system", field |-> "memory_percent",
            type |-> "memory_high", severity |-> "warning"],
           [family |-> "system", field |-> "disk_percent",
            type |-> "disk_high", severity |-> "critical"],
           [family |-> "application", field |-> "error_rate",
            type |-> "error_rate_high", severity |-> "warning"],
           [family |-> "application", field |-> "response_time_avg",
            type |-> "response_time_high", severity |-> "warning"]>>

\* self.metrics_history[...][-1]
Earliest(q) == q[1]
Latest(q) == q[Len(q)]

\* value > threshold
Exceeds(value, threshold) == value > threshold

Fires(h, rule) ==
    /\ h[rule.family] # <<>>
    /\ Exceeds(Latest(h[rule.family]).readings[rule.field], ThresholdOf(rule.field))

Descriptor(h, rule) ==
    [type |-> rule.type,
     severity |-> rule.severity,
     timestamp |-> Latest(h[rule.family]).timestamp,
     value |-> Latest(h[rule.family]).readings[rule.field],
     threshold |-> ThresholdOf(rule.field)]

\* the list check_alerts builds (metrics.py:281-344)
Candidates(h) ==
    LET fired == SelectSeq(Rules, LAMBDA rule : Fires(h, rule))
    IN  [k \in 1..Len(fired) |-> Descriptor(h, fired[k])]

\* check_alerts (metrics.py:279-348)
CheckAlerts ==
    /\ metric_alerts < MaxCandidates
    /\ metric_alerts' = metric_alerts + Len(Candidates(metrics_history))
    /\ mon_ret' = MonRet("check_alerts", "", 0, FALSE, 0, Candidates(metrics_history))
    /\ UNCHANGED <<metrics_history, n_collected, running, loop_pc, now>>

\* readings of family f: the fields in above read just above their
\* threshold, the others exactly their threshold
ReadingsWith(f, above) ==
    [field \in Readings(f) |-> ThresholdOf(field) + (IF field \in above THEN 1 ELSE 0)]

\* collect_system_metrics / collect_application_metrics called directly
\* (metrics.py:98-142, 144-172): the sample read is appended to its buffer
Collect(f, r) ==
    /\ n_collected < MaxReadings
    /\ metrics_history' = [metrics_history EXCEPT ![f] = DequeAppend(@, Sample(f, now, r))]
    /\ n_collected' = n_collected + 1
    /\ mon_ret' = MonRet("collect", f, 0, FALSE, 0, <<>>)
    /\ UNCHANGED <<metric_alerts, running, loop_pc, now>>

\* except Exception in the loops (monitor.py:89-91 and alike): where a loop
\* stands after an iteration
AfterIterationUncaught(raised) == IF raised THEN "failed" ELSE "waiting"
AfterIteration(raised) == "waiting"

\* one iteration of a periodic loop (monitor.py:80-151), up to its sleep; the
\* agents loop takes one agent per step. ok: collect_* returned a sample;
\* exc: the threshold check (or check_alerts) raised
LoopIterate(l, ok, exc) ==
    /\ loop_pc[l] \in {"waiting", "midway"}
    /\ l # "alert_check" => n_collected < MaxSamples
    /\ IF ~running /\ loop_pc[l] = "waiting"
       THEN /\ loop_pc' = [loop_pc EXCEPT ![l] = "done"]
            /\ mon_ret' = MonRet("iterate", l, 0, FALSE, 0, <<>>)
            /\ UNCHANGED <<metrics_history, n_collected, metric_alerts>>
       ELSE LET collects == l # "alert_check" /\ ok
                raised == exc /\ (l = "alert_check" \/ ok)
                next_pc == IF l = "agents" /\ loop_pc[l] = "waiting" /\ ~raised
                           THEN "midway" ELSE AfterIteration(raised)
            IN  /\ metrics_history' =
                      IF collects
                      THEN [metrics_history EXCEPT ![l] = DequeAppend(@, NewSample(l, now))]
                      ELSE metrics_history
                /\ n_collected' = IF collects THEN n_collected + 1 ELSE n_collected
                /\ metric_alerts' = IF l = "alert_check" /\ ~exc
                                    THEN metric_alerts + Len(Candidates(metrics_history))
                                    ELSE metric_alerts
                /\ loop_pc' = [loop_pc EXCEPT ![l] = next_pc]
                /\ mon_ret' = MonRet("iterate", l, 0, raised,
                                     IF next_pc = "waiting" THEN check_interval ELSE 0, <<>>)
    /\ UNCHANGED <<running, now>>

\* start_monitoring (monitor.py:34-60), up to its await of the gathered tasks
StartMonitoring ==
    /\ IF running
       THEN UNCHANGED <<running, loop_pc>>
       ELSE /\ running' = TRUE
            /\ loop_pc' = [l \in Loops |-> "waiting"]
    /\ mon_ret' = MonRet("start_monitoring", "", 0, FALSE, 0, <<>>)
    /\ UNCHANGED <<metrics_history, n_collected, metric_alerts, now>>

\* stop_monitoring (monitor.py:62-78): task.cancel() ends a task at the await
\* it is suspended in
StopMonitoring ==
    /\ IF ~running
       THEN UNCHANGED <<running, loop_pc>>
       ELSE /\ running' = FALSE
            /\ loop_pc' = [l \in Loops |->
                              IF loop_pc[l] \in {"done", "failed"} THEN loop_pc[l]
                              ELSE "cancelled"]
    /\ mon_ret' = MonRet("stop_monitoring", "", 0, FALSE, 0, <<>>)
    /\ UNCHANGED <<metrics_history, n_collected, metric_alerts, now>>

InitMonitor ==
    /\ now = 0
    /\ metrics_history = [f \in Families |-> <<>>]
    /\ n_collected = 0
    /\ metric_alerts = 0
    /\ running = FALSE
    /\ loop_pc = [l \in Loops |-> "idle"]
    /\ mon_ret = MonRet("init", "", 0, FALSE, 0, <<>>)

MonitorOnly ==
    UNCHANGED <<runnerVars, sourceVars, cacheVars, alertVars, qualityVars, sendVars, agentVars>>

NextMonitor ==
    \/ MonTick /\ MonitorOnly
    \/ \E l \in Loops, ok \in BOOLEAN, exc \in BOOLEAN : LoopIterate(l, ok, exc) /\ MonitorOnly
    \/ StartMonitoring /\ MonitorOnly
    \/ StopMonitoring /\ MonitorOnly
    \/ \E metric_type \in MetricTypes, hours \in Hours :
            GetHistoricalMetrics(metric_type, hours) /\ MonitorOnly

MonitorStart == IdleRunner /\ IdleCacheState /\ IdleAlerts /\ InitMonitor /\ IdleQuality /\ IdleSend

SpecMonitor == MonitorStart /\ [][NextMonitor]_vars

\* the clock moves on by a second
CollectorTick ==
    /\ now < MaxNow
    /\ now' = now + 1
    /\ UNCHANGED monVars

\* the collector used directly, as the API routes and the tests use it
NextCollector ==
    \/ CollectorTick /\ MonitorOnly
    \/ \E f \in {"system", "application"} : \E above \in SUBSET Readings(f) :
            Collect(f, ReadingsWith(f, above)) /\ MonitorOnly
    \/ CheckAlerts /\ MonitorOnly

SpecCollector == MonitorStart /\ [][NextCollector]_vars

(***************************************************************************)
(* Properties of the collector and the monitoring loops                    *)
(***************************************************************************)
Timestamps(q) == [k \in 1..Len(q) |-> FromIsoFormat(q[k].timestamp)]
NonDecreasing(s) == \A i, j \in 1..Len(s) : i < j => s[i] <= s[j]

\* a get_historical_metrics call that returned
HistoricalReturned ==
    /\ mon_ret' # mon_ret
    /\ mon_ret'.op = "get_historical_metrics"
    /\ ~mon_ret'.exc

\* the samples of buffer q no older than hours hours, in buffer order
WithinLast(q, hours) ==
    LET Recent(s) == now - FromIsoFormat(s.timestamp) <= SecondsPerHour * hours
    IN  SelectSeq(q, Recent)

HistoricalExact ==
    (HistoricalReturned /\ mon_ret'.who \in Families) =>
        /\ mon_ret'.val = WithinLast(metrics_history[mon_ret'.who], mon_ret'.hours)
        /\ NonDecreasing(Timestamps(mon_ret'.val))

BuffersChronological ==
    \A f \in DOMAIN metrics_history : NonDecreasing(Timestamps(metrics_history[f]))

\* C13: get_historical_metrics(family, hours), when it returns, returns
\* exactly the buffered samples of the family whose timestamp is within the
\* last hours hours, in insertion order and with non-decreasing timestamps,
\* whatever the interleaving of the monitoring loops' collect calls.
C13_HistoricalOrdered == [][HistoricalExact]_vars /\ []BuffersChronological

\* a query that kept one of two buffered samples while another loop collected too
C13_Witness ==
    /\ mon_ret.op = "get_historical_metrics"
    /\ mon_ret.who = "agents"
    /\ mon_ret.hours = 1
    /\ Len(mon_ret.val) = 1
    /\ Len(metrics_history["agents"]) = 2
    /\ mon_ret.val[1] = metrics_history["agents"][2]
    /\ FromIsoFormat(metrics_history["agents"][1].timestamp) = 0
    /\ now > SecondsPerHour
    /\ metrics_history["system"] # <<>>

\* a step that appended a sample to family f
AppendedTo(f) == metrics_history'[f] # metrics_history[f]

RingAppend ==
    \A f \in DOMAIN metrics_history :
        AppendedTo(f) =>
            LET old == metrics_history[f]
                new == metrics_history'[f]
            IN  /\ Len(new) >= 1
                /\ new[Len(new)] = NewSample(f, now)
                /\ IF Len(old) = maxlen
                   THEN SubSeq(new, 1, Len(new) - 1) = Tail(old)
                   ELSE SubSeq(new, 1, Len(new) - 1) = old

WithinCapacity ==
    \A f \in DOMAIN metrics_history : Len(metrics_history[f]) <= maxlen

\* C14: every family's history holds at most maxlen samples; an append to a
\* full buffer drops exactly the oldest sample and keeps the others in order.
C14_RingBuffer == [][RingAppend]_vars /\ []WithinCapacity

\* one family received more samples than the buffer holds
C14_Witness ==
    /\ n_collected = MaxSamples
    /\ MaxSamples > maxlen
    /\ Len(metrics_history["system"]) = maxlen
    /\ \A f \in Families \ {"system"} : metrics_history[f] = <<>>
    /\ FromIsoFormat(metrics_history["system"][1].timestamp) > 0

\* an iteration of a loop in which an exception was raised
RaisedIteration ==
    /\ mon_ret'.op = "iterate"
    /\ mon_ret'.exc
    /\ loop_pc # loop_pc' \/ mon_ret' # mon_ret

RaisedIterationSleeps ==
    RaisedIteration =>
        /\ loop_pc'[mon_ret'.who] = "waiting"
        /\ mon_ret'.sleep = check_interval
        /\ \A l \in Loops \ {mon_ret'.who} : loop_pc'[l] = loop_pc[l]

LoopsAliveWhileRunning ==
    running => \A l \in Loops : loop_pc[l] \in {"waiting", "midway"}

\* C15: while the service runs, an exception raised in one of the five loops
\* is caught there, the loop sleeps check_interval and stays scheduled, and
\* no loop is ended by it.
C15_LoopSurvivesException == [][RaisedIterationSleeps]_vars /\ []LoopsAliveWhileRunning

\* the agents loop raised at its first agent and sleeps, the others still wait
C15_Witness ==
    /\ running
    /\ mon_ret.op = "iterate"
    /\ mon_ret.who = "agents"
    /\ mon_ret.exc
    /\ mon_ret.sleep = check_interval
    /\ Len(metrics_history["agents"]) = 1
    /\ \A l \in Loops : loop_pc[l] = "waiting"

\* a get_historical_metrics call for a family without samples or an unknown family
EmptyQuery ==
    /\ mon_ret' # mon_ret
    /\ mon_ret'.op = "get_historical_metrics"
    /\ \/ mon_ret'.who \notin Families
       \/ metrics_history[mon_ret'.who] = <<>>

EmptyQueryReturnsEmpty ==
    EmptyQuery =>
        /\ ~mon_ret'.exc
        /\ mon_ret'.val = <<>>
        /\ metrics_history' = metrics_history

\* C20 (as claimed): get_historical_metrics returns an empty sequence, never
\* an error, for a family holding no sample and for an unknown family name,
\* and changes no buffer.
C20_EmptyQueryNeverFails == [][EmptyQueryReturnsEmpty]_vars

\* C23: check_alerts looks only at the most recent system sample and the
\* most recent application sample, returns one candidate per threshold that
\* the sample strictly exceeds (none when the buffers are empty), and changes
\* neither the ring buffers nor any AlertManager state.
CheckAlertsStep == mon_ret'.op = "check_alerts" /\ now' = now

\* the candidate types the most recent samples call for
Exceeded ==
    {rule.type : rule \in
        {Rules[k] : k \in {j \in 1..Len(Rules) :
            LET q == metrics_history[Rules[j].family]
            IN  /\ Len(q) > 0
                /\ q[Len(q)].readings[Rules[j].field] > ThresholdOf(Rules[j].field)}}}

CheckAlertsExact ==
    CheckAlertsStep =>
        LET val == mon_ret'.val
        IN  /\ {val[k].type : k \in 1..Len(val)} = Exceeded
            /\ Len(val) = Cardinality(Exceeded)
            /\ (\A f \in {"system", "application"} : metrics_history[f] = <<>>)
                  => val = <<>>
            /\ metrics_history' = metrics_history
            /\ UNCHANGED alertVars

C23_CheckAlertsLatestOnly == [][CheckAlertsExact]_vars

\* check_alerts returned the one candidate of the latest system sample while
\* an older sample in the buffer exceeds other thresholds
C23_Witness ==
    /\ mon_ret.op = "check_alerts"
    /\ Len(mon_ret.val) = 1
    /\ mon_ret.val[1].type = "cpu_high"
    /\ Len(metrics_history["system"]) = 2
    /\ metrics_history["system"][1].readings["disk_percent"] > thresholds.disk_percent
    /\ metrics_history["system"][2].readings["disk_percent"] = thresholds.disk_percent

\* ---------------------------------------------------------------------
\* Quality checks of the pipeline (executor.py:306-333, code_runner.py)
\* ---------------------------------------------------------------------

\* the three checks in the order _run_quality_checks awaits them
Checks == <<"tests", "lint", "type_check">>

\* how a check can end: the subprocess exits with 0 or not, the run times
\* out (run_tests alone passes a timeout), anything else raises inside the
\* try block; "bare" is a substituted code_runner (the attribute is plain,
\* executor.py:31) answering with a dict that has no "passed" key
CheckOutcomes(check) ==
    {"zero", "nonzero", "error", "bare"}
        \cup (IF check = "tests" THEN {"timeout"} ELSE {})

\* the dict a check returns (code_runner.py:65-95, 115-136, 156-177)
CheckResult(outcome) ==
    CASE outcome = "zero"    -> [passed |-> TRUE, returncode |-> 0]
      [] outcome = "nonzero" -> [passed |-> FALSE, returncode |-> 1]
      [] outcome = "bare"    -> [returncode |-> 0]
      [] OTHER               -> [passed |-> FALSE, returncode |-> -1]

\* dict.get(key, default)
Get(d, key, default) == IF key \in DOMAIN d THEN d[key] ELSE default

\* executor.py:328-332
OverallAny(rs) ==
    IF \E c \in DOMAIN rs : Get(rs[c], "passed", FALSE) THEN "pass" ELSE "fail"
Overall(rs) ==
    IF \A c \in DOMAIN rs : Get(rs[c], "passed", FALSE) THEN "pass" ELSE "fail"

\* the check awaited at position p returns; the next position follows
CheckReturns(p, outcome, next) ==
    /\ q_pc = p
    /\ q_results' = q_results @@ (p :> CheckResult(outcome))
    /\ q_calls' = [q_calls EXCEPT ![p] = @ + 1]
    /\ q_pc' = next
    /\ UNCHANGED quality

\* executor.py:316
RunTests(outcome) == CheckReturns(Checks[1], outcome, Checks[2])

\* executor.py:319
RunLint(outcome) == CheckReturns(Checks[2], outcome, Checks[3])

\* executor.py:322
RunTypeCheck(outcome) == CheckReturns(Checks[3], outcome, "assemble")

\* executor.py:324-333
AssembleQuality ==
    /\ q_pc = "assemble"
    /\ quality' = q_results @@ ("overall" :> Overall(q_results))
    /\ q_pc' = "returned"
    /\ UNCHANGED <<q_results, q_calls>>

\* the pipeline of the next task reaches its quality stage (executor.py:144)
QualityBegin ==
    /\ q_pc = "returned"
    /\ q_pc' = Checks[1]
    /\ q_results' = <<>>
    /\ q_calls' = [c \in {Checks[k] : k \in 1..Len(Checks)} |-> 0]
    /\ quality' = <<>>

InitQuality ==
    /\ q_pc = Checks[1]
    /\ q_results = <<>>
    /\ q_calls = [c \in {Checks[k] : k \in 1..Len(Checks)} |-> 0]
    /\ quality = <<>>

QualityOnly ==
    UNCHANGED <<runnerVars, sourceVars, now, cacheVars, alertVars, monVars, sendVars, agentVars>>

NextQuality ==
    \/ (\E o \in CheckOutcomes(Checks[1]) : RunTests(o)) /\ QualityOnly
    \/ (\E o \in CheckOutcomes(Checks[2]) : RunLint(o)) /\ QualityOnly
    \/ (\E o \in CheckOutcomes(Checks[3]) : RunTypeCheck(o)) /\ QualityOnly
    \/ AssembleQuality /\ QualityOnly
    \/ QualityBegin /\ QualityOnly

QualityStart == IdleRunner /\ IdleCache /\ IdleAlerts /\ IdleMonitor /\ InitQuality /\ IdleSend

SpecQuality == QualityStart /\ [][NextQuality]_vars

\* ---- Properties of the quality checks ----

\* the result of a check says it passed
ReportsPassed(r) == "passed" \in DOMAIN r /\ r.passed = TRUE

OverallExact ==
    quality # <<>> =>
        /\ DOMAIN quality = {Checks[k] : k \in 1..Len(Checks)} \cup {"overall"}
        /\ quality.overall \in {"pass", "fail"}
        /\ quality.overall = "pass"
              <=> \A k \in 1..Len(Checks) : ReportsPassed(quality[Checks[k]])

EachCheckOnce ==
    /\ \A k \in 1..Len(Checks) : q_calls[Checks[k]] <= 1
    /\ q_pc \in {"assemble", "returned"}
          => \A k \in 1..Len(Checks) : q_calls[Checks[k]] = 1
    /\ \A k \in 1..Len(Checks) :
          q_calls[Checks[k]] = 1 <=> Checks[k] \in DOMAIN q_results

\* C30: the overall field of the quality result is "pass" exactly when the
\* tests, lint and type-check results all report passed, and "fail" when one
\* reports not passed or carries no passed field; every pipeline run calls
\* each of the three checks exactly once, whatever the other checks returned.
C30_QualityOverall == OverallExact /\ EachCheckOnce

\* the tests failed and lint answered without a passed field, the type check
\* still ran once and passed, and the overall result is "fail"
C30_Witness ==
    /\ q_pc = "returned"
    /\ quality.overall = "fail"
    /\ quality.tests.passed = FALSE
    /\ "passed" \notin DOMAIN quality.lint
    /\ ReportsPassed(quality.type_check)
    /\ \A k \in 1..Len(Checks) : q_calls[Checks[k]] = 1

\* ---------------------------------------------------------------------
\* BaseAgent (agents/base_agent.py)
\* ---------------------------------------------------------------------
MaxAgentTasks == 3

\* indexes of the tasks with status "pending", in list order (base_agent.py:142)
PendingTasks(ts) ==
    LET IsPending(k) == ts[k] = "pending"
    IN  SelectSeq([k \in 1..Len(ts) |-> k], IsPending)

Counted(a) == a.tasks_completed + a.tasks_failed

NoProc == [pc |-> "idle", ran |-> FALSE, pending |-> <<>>, i |-> 0, before |-> 0]

\* start (base_agent.py:97-108)
AgentStart ==
    /\ ~agent.running
    /\ agent' = [agent EXCEPT !.running = TRUE, !.status = "idle"]
    /\ UNCHANGED proc

\* assign_task (base_agent.py:123-135): a stopped agent refuses
AssignTask ==
    /\ agent.running
    /\ Len(agent.tasks) < MaxAgentTasks
    /\ agent' = [agent EXCEPT !.tasks = Append(@, "pending")]
    /\ UNCHANGED proc

\* process_tasks is called (base_agent.py:137-142)
ProcessBegin ==
    /\ proc.pc \in {"idle", "returned", "raised"}
    /\ LET pend == PendingTasks(agent.tasks)
       IN  proc' = IF ~agent.running
                   THEN [pc |-> "returned", ran |-> FALSE, pending |-> <<>>,
                         i |-> 0, before |-> Counted(agent)]
                   ELSE [pc |-> IF pend = <<>> THEN "returned" ELSE "loop",
                         ran |-> TRUE, pending |-> pend,
                         i |-> IF pend = <<>> THEN 0 ELSE 1, before |-> Counted(agent)]
    /\ UNCHANGED agent

\* base_agent.py:146-152: BUSY, then execute_task is awaited
BeginTask ==
    /\ proc.pc = "loop"
    /\ agent' = [agent EXCEPT !.status = "busy"]
    /\ proc' = [proc EXCEPT !.pc = "executing"]

\* base_agent.py:152-184: execute_task returns or raises, the callbacks
\* return or raise; `escapes` is an exception leaving the except block
FinishTask(exec_raises, completed_cb_raises, failed_cb_raises) ==
    /\ proc.pc = "executing"
    /\ LET t == proc.pending[proc.i]
           in_except == exec_raises \/ completed_cb_raises
           escapes == in_except /\ failed_cb_raises
       IN  /\ agent' = [agent EXCEPT
                  !.tasks_completed = IF exec_raises THEN @ ELSE @ + 1,
                  !.tasks_failed = IF in_except THEN @ + 1 ELSE @,
                  !.tasks[t] = IF in_except THEN "failed" ELSE "completed",
                  !.status = "idle"]
           /\ proc' = [proc EXCEPT
                  !.pc = IF escapes THEN "raised"
                         ELSE IF proc.i = Len(proc.pending) THEN "returned" ELSE "loop",
                  !.i = IF escapes \/ proc.i = Len(proc.pending) THEN @ ELSE @ + 1]

InitAgent ==
    /\ agent = [running |-> FALSE, status |-> "idle", tasks |-> <<>>,
                tasks_completed |-> 0, tasks_failed |-> 0]
    /\ proc = NoProc

AgentOnly ==
    UNCHANGED <<runnerVars, sourceVars, now, cacheVars, alertVars, monVars, qualityVars,
                sendVars>>

NextAgent ==
    \/ AgentStart /\ AgentOnly
    \/ AssignTask /\ AgentOnly
    \/ ProcessBegin /\ AgentOnly
    \/ BeginTask /\ AgentOnly
    \/ (\E exec_raises, completed_cb_raises, failed_cb_raises \in BOOLEAN :
            /\ exec_raises => ~completed_cb_raises
            /\ FinishTask(exec_raises, completed_cb_raises, failed_cb_raises)) /\ AgentOnly

AgentStartState ==
    /\ IdleRunner /\ IdleCache /\ IdleAlerts /\ IdleMonitor /\ IdleQuality
    /\ in_send = <<>>
    /\ InitAgent

SpecAgent == AgentStartState /\ [][NextAgent]_vars

\* ---- Properties of the agent ----

\* a process_tasks call on a running agent is over
ProcessOver == proc.pc \in {"returned", "raised"} /\ proc.ran

\* C39 (as claimed): after process_tasks on a running agent every task that
\* was pending is completed or failed, the agent is IDLE, and tasks_completed
\* + tasks_failed has grown by the number of tasks processed, each counted
\* once, also when an on_task_completed or on_task_failed callback raises.
C39_EachTaskCountedOnce ==
    ProcessOver =>
        /\ \A k \in 1..Len(proc.pending) :
              agent.tasks[proc.pending[k]] \in {"completed", "failed"}
        /\ agent.status = "idle"
        /\ Counted(agent) = proc.before + Len(proc.pending)

====
